---------------------------- MODULE Spec2Model ----------------------------
(***************************************************************************)
(* Model of the validation engine of yamalert: the PromQL expression       *)
(* scanner (is_promql_syntax_valid), the structural validators             *)
(* (validate_prometheus_rules, validate_alertmanager_config) and the       *)
(* request handlers /api/validate/promql and /api/validate/yaml, in the    *)
(* three variants of the repository: src/app.py ("root"), src/v2/app.py    *)
(* ("v2") and src/v3/app.py ("v3"); and of the stores behind them: the     *)
(* admins and templates tables and the editor state of the root variant,   *)
(* the settings and rules tables of v3, and each client's session, with    *)
(* the routes that write them.                                             *)
(*                                                                         *)
(* A text is a sequence of one-character strings.  A parsed YAML value is  *)
(* a record tagged by its type.  A Python exception that leaves a          *)
(* function is the field exc of the function's result.                     *)
(***************************************************************************)
EXTENDS Integers, Sequences, FiniteSets, TLC

VARIABLES
    variant,     \* which app is deployed: "root", "v2" or "v3"
    pc,          \* "idle", "scan" (inside the scanner loop) or "done"
    req,         \* the request being handled
    resp,        \* the response of the handler
    ran,         \* the components the handler has run for this request
    expr,        \* is_promql_syntax_valid: the expression being scanned
    i,           \* index (1-based) of the next character to scan
    brace,       \* brace / brace_balance
    bracket,     \* bracket / bracket_balance
    paren,       \* paren / paren_balance
    in_string,   \* the open string delimiter, or NoString
    escape,      \* the escape flag
    admins,      \* root: the rows of table admins
    templates,   \* root: the rows of table templates
    editor,      \* root: app._editor, or NoEditor while the attribute is not set
    settings,    \* v3: the rows of table settings
    rulesTable,  \* v3: the rows of table rules
    session,     \* the session of each client
    calls,       \* the request each client has inside a handler, with its locals
    reports      \* the last validation request of each client, with its report

vars == <<variant, pc, req, resp, ran, expr, i, brace, bracket, paren, in_string, escape,
          admins, templates, editor, settings, rulesTable, session, calls, reports>>

\* the stores and the sessions of the application, and the requests in flight
appVars == <<admins, templates, editor, settings, rulesTable, session, calls, reports>>

scanVars == <<expr, i, brace, bracket, paren, in_string, escape>>

Variants == {"root", "v2", "v3"}

(***************************************************************************)
(* Bounds of the model.                                                    *)
(***************************************************************************)
MaxLen == 3          \* expressions over Alphabet have at most MaxLen characters
MaxGroups == 2       \* groups in a rule document
MaxRules == 2        \* rule entries in a rule document, over all its groups
MaxReceivers == 2    \* receivers in a routing document
MaxRepeat == 3       \* receivers in a routing document whose names repeat

(***************************************************************************)
(* Characters.                                                             *)
(***************************************************************************)
NoString == "None"

Letters == {"a", "b", "e", "j", "m", "o", "p", "r", "s", "t", "u", "x"}

Digits == {"0", "5", "8"}

\* [a-zA-Z0-9_:]
IsIdentChar(ch) == ch \in Letters \cup Digits \cup {"_", ":"}

\* [\x00-\x1f]
IsControlChar(ch) == ch \in {"\t", "\n", "\r", "\f"}

\* the characters str.strip() removes
IsSpace(ch) == ch \in {" ", "\t", "\n", "\r", "\f"}

\* [=<>!]
IsComparisonChar(ch) == ch \in {"=", "<", ">", "!"}

\* U+0060, the back-tick, which a TLA+ string cannot hold
Backtick == "backtick"

Alphabet == {"{", "}", "[", "]", "(", ")", "\"", "'", Backtick, "\\", " ", "a", ">", "+", "\t"}

\* the expressions of bounded length over Alphabet
RECURSIVE TextsOfLen(_)
TextsOfLen(n) ==
    IF n = 0 THEN {<<>>}
    ELSE {Append(t, ch) : t \in TextsOfLen(n - 1), ch \in Alphabet}

ShortTexts == UNION {TextsOfLen(n) : n \in 0..MaxLen}

\* the expressions the specification names as test cases, and variations of them
ExampleTexts ==
    { <<"s","u","m","(","r","a","t","e","(","x","[","5","m","]",")",")">>,
      <<"s","u","m","(","r","a","t","e","(","x","[","5","m","]",")">>,
      <<">","8","0">>,
      <<"u","p","{","j","o","b","=","\"","a","\"","}"," ","=","="," ","0">>,
      <<"u","p","{","j","o","b","=","\"","}","\"","}"," ","=","="," ","0">>,
      <<"u","p","{","j","o","b","=","\"","\\","\"","}","\"","}">>,
      <<"u","p"," ","=","=">>,
      <<" ",">","8","0"," ">>,
      <<"{","\"","}","\"","}">>,
      <<"\"","\\","\"","\"">>,
      <<"a","\\","\\","\"","b","\"">>,
      <<"(","[",")","]","a">>,
      <<Backtick,"(","\"",Backtick,"a">>,
      <<"a","\n","b">>,
      <<"{","{","a","}","}">> }

Texts == ShortTexts \cup ExampleTexts

(***************************************************************************)
(* is_promql_syntax_valid.  The root variant returns a bool; v2 and v3     *)
(* return (bool, message), the message of a negative closing delimiter     *)
(* carrying the 0-based index of the character.                            *)
(***************************************************************************)
\* root returns no message
NoError == <<>>

\* return False, "<text>"
Verdict(valid, text) == [valid |-> valid, error |-> <<text>>]

\* return False, f"<text> {i}"
VerdictAt(valid, text, pos) == [valid |-> valid, error |-> <<text, pos>>]

\* root: return False / return True
RootVerdict(valid) == [valid |-> valid, error |-> NoError]

\* "no return yet": the scan goes on
NoRet == [valid |-> FALSE, error |-> <<"<running>">>]

\* the locals of the scan before the first character
ScanInit == [brace |-> 0, bracket |-> 0, paren |-> 0, in_string |-> NoString,
             escape |-> FALSE, ret |-> NoRet]

\* expr.strip()
RECURSIVE LStrip(_)
LStrip(e) == IF e # <<>> /\ IsSpace(Head(e)) THEN LStrip(Tail(e)) ELSE e

RECURSIVE RStrip(_)
RStrip(e) ==
    IF e # <<>> /\ IsSpace(e[Len(e)]) THEN RStrip(SubSeq(e, 1, Len(e) - 1)) ELSE e

Strip(e) == RStrip(LStrip(e))

\* variation: control characters are left to the loop, which ignores them
PreCheckEmptyOnly(v, e) ==
    IF e = <<>> \/ Strip(e) = <<>>
    THEN IF v = "root" THEN RootVerdict(FALSE) ELSE Verdict(FALSE, "Empty expression")
    ELSE NoRet

\* the checks made before the loop: empty expression, control characters
PreCheck(v, e) ==
    IF e = <<>> \/ Strip(e) = <<>>
    THEN IF v = "root" THEN RootVerdict(FALSE) ELSE Verdict(FALSE, "Empty expression")
    ELSE IF \E k \in 1..Len(e) : IsControlChar(e[k])
    THEN IF v = "root" THEN RootVerdict(FALSE)
         ELSE Verdict(FALSE, "Contains invalid control characters")
    ELSE NoRet

\* the counter updates of the delimiter branches
Bump(s, ch) ==
    CASE ch = "{" -> [s EXCEPT !.brace = @ + 1]
      [] ch = "}" -> [s EXCEPT !.brace = @ - 1]
      [] ch = "[" -> [s EXCEPT !.bracket = @ + 1]
      [] ch = "]" -> [s EXCEPT !.bracket = @ - 1]
      [] ch = "(" -> [s EXCEPT !.paren = @ + 1]
      [] ch = ")" -> [s EXCEPT !.paren = @ - 1]
      [] OTHER -> s

\* variation: a counter may go negative, only the balance at the end counts
NegativeCheckDeferred(v, s1, ch, pos) == s1

\* the negative-counter returns: s1 is the state after the update for ch
NegativeCheck(v, s1, ch, pos) ==
    IF v = "root"
    THEN IF s1.brace < 0 \/ s1.bracket < 0 \/ s1.paren < 0
         THEN [s1 EXCEPT !.ret = RootVerdict(FALSE)]
         ELSE s1
    ELSE IF ch = "}" /\ s1.brace < 0
         THEN [s1 EXCEPT !.ret = VerdictAt(FALSE, "Unexpected closing brace '}' at position", pos)]
    ELSE IF ch = "]" /\ s1.bracket < 0
         THEN [s1 EXCEPT !.ret = VerdictAt(FALSE, "Unexpected closing bracket ']' at position", pos)]
    ELSE IF ch = ")" /\ s1.paren < 0
         THEN [s1 EXCEPT !.ret = VerdictAt(FALSE, "Unexpected closing parenthesis ')' at position", pos)]
    ELSE s1

\* variation: a closing delimiter must match the kind opened last, read off
\* the counters as "no other kind is open"
DelimitersNested(v, s, ch, pos) ==
    IF \/ ch = "}" /\ (s.bracket > 0 \/ s.paren > 0) /\ s.brace = 1
       \/ ch = "]" /\ (s.brace > 0 \/ s.paren > 0) /\ s.bracket = 1
       \/ ch = ")" /\ (s.brace > 0 \/ s.bracket > 0) /\ s.paren = 1
    THEN [s EXCEPT !.ret = IF v = "root" THEN RootVerdict(FALSE)
                            ELSE VerdictAt(FALSE, "Mismatched closing delimiter at position", pos)]
    ELSE NegativeCheck(v, Bump(s, ch), ch, pos)

\* the delimiter branches of the loop body, for a character outside strings
Delimiters(v, s, ch, pos) == NegativeCheck(v, Bump(s, ch), ch, pos)

\* variation: the back-tick is an ordinary character
LoopBodyNoBacktick(v, s, ch, pos) ==
    IF s.escape THEN [s EXCEPT !.escape = FALSE]
    ELSE IF ch = "\\" THEN [s EXCEPT !.escape = TRUE]
    ELSE IF s.in_string # NoString
    THEN IF ch = s.in_string THEN [s EXCEPT !.in_string = NoString] ELSE s
    ELSE IF ch = "\"" \/ ch = "'" THEN [s EXCEPT !.in_string = ch]
    ELSE Delimiters(v, s, ch, pos)

\* variation: delimiters are counted inside strings too
LoopBodyNoSuppress(v, s, ch, pos) ==
    IF s.escape THEN [s EXCEPT !.escape = FALSE]
    ELSE IF ch = "\\" THEN [s EXCEPT !.escape = TRUE]
    ELSE IF s.in_string # NoString /\ ch = s.in_string THEN [s EXCEPT !.in_string = NoString]
    ELSE IF s.in_string = NoString /\ (ch = "\"" \/ ch = "'") THEN [s EXCEPT !.in_string = ch]
    ELSE IF s.in_string = NoString /\ v # "root" /\ ch = Backtick THEN [s EXCEPT !.in_string = ch]
    ELSE Delimiters(v, s, ch, pos)

\* variation: the escape flag is only looked at inside strings
LoopBodyEscapeInString(v, s, ch, pos) ==
    IF s.in_string # NoString /\ s.escape THEN [s EXCEPT !.escape = FALSE]
    ELSE IF s.in_string # NoString /\ ch = "\\" THEN [s EXCEPT !.escape = TRUE]
    ELSE IF s.in_string # NoString
    THEN IF ch = s.in_string THEN [s EXCEPT !.in_string = NoString] ELSE s
    ELSE IF ch = "\"" \/ ch = "'" THEN [s EXCEPT !.in_string = ch]
    ELSE IF v # "root" /\ ch = Backtick THEN [s EXCEPT !.in_string = ch]
    ELSE Delimiters(v, s, ch, pos)

\* one iteration of "for i, ch in enumerate(expr)"; pos is the 0-based index
LoopBody(v, s, ch, pos) ==
    IF s.escape THEN [s EXCEPT !.escape = FALSE]
    ELSE IF ch = "\\" THEN [s EXCEPT !.escape = TRUE]
    ELSE IF s.in_string # NoString
    THEN IF ch = s.in_string THEN [s EXCEPT !.in_string = NoString] ELSE s
    ELSE IF ch = "\"" \/ ch = "'" THEN [s EXCEPT !.in_string = ch]
    ELSE IF v # "root" /\ ch = Backtick THEN [s EXCEPT !.in_string = ch]
    ELSE Delimiters(v, s, ch, pos)

\* variation: only the first character of expr.strip() is looked at
HeuristicsStartOnly(stripped) ==
    IF IsComparisonChar(Head(stripped))
    THEN Verdict(FALSE, "Expression cannot start with a comparison operator")
    ELSE Verdict(TRUE, "")

\* v2, v3: the comparison-operator heuristics on expr.strip()
Heuristics(stripped) ==
    IF IsComparisonChar(Head(stripped))
    THEN Verdict(FALSE, "Expression cannot start with a comparison operator")
    ELSE IF IsComparisonChar(stripped[Len(stripped)])
    THEN Verdict(FALSE, "Expression cannot end with a comparison operator")
    ELSE Verdict(TRUE, "")

\* variation: v2/v3 look at the comparison operators before the balance
FinalChecksHeuristicsFirst(v, e, s) ==
    IF v = "root"
    THEN RootVerdict(s.in_string = NoString /\ s.brace = 0 /\ s.bracket = 0 /\ s.paren = 0
                         /\ \E k \in 1..Len(e) : IsIdentChar(e[k]))
    ELSE IF ~Heuristics(Strip(e)).valid THEN Heuristics(Strip(e))
    ELSE IF s.in_string # NoString THEN Verdict(FALSE, "Unclosed string literal")
    ELSE IF s.brace # 0 THEN Verdict(FALSE, "Unclosed braces {}")
    ELSE IF s.bracket # 0 THEN Verdict(FALSE, "Unclosed brackets []")
    ELSE IF s.paren # 0 THEN Verdict(FALSE, "Unclosed parentheses ()")
    ELSE Verdict(TRUE, "")

\* variation: root does not look for an identifier character
FinalChecksNoIdent(v, e, s) ==
    IF s.in_string # NoString \/ s.brace # 0 \/ s.bracket # 0 \/ s.paren # 0
    THEN IF v = "root" THEN RootVerdict(FALSE) ELSE Verdict(FALSE, "Unclosed")
    ELSE IF v = "root" THEN RootVerdict(TRUE)
    ELSE Heuristics(Strip(e))

\* variation: the parenthesis counter is not looked at after the loop
FinalChecksNoParen(v, e, s) ==
    IF s.in_string # NoString \/ s.brace # 0 \/ s.bracket # 0
    THEN IF v = "root" THEN RootVerdict(FALSE) ELSE Verdict(FALSE, "Unclosed")
    ELSE IF v = "root" THEN RootVerdict(\E k \in 1..Len(e) : IsIdentChar(e[k]))
    ELSE Heuristics(Strip(e))

\* the checks made after the loop
FinalChecks(v, e, s) ==
    IF v = "root"
    THEN IF s.in_string # NoString THEN RootVerdict(FALSE)
         ELSE IF s.brace # 0 \/ s.bracket # 0 \/ s.paren # 0 THEN RootVerdict(FALSE)
         ELSE IF ~ \E k \in 1..Len(e) : IsIdentChar(e[k]) THEN RootVerdict(FALSE)
         ELSE RootVerdict(TRUE)
    ELSE IF s.in_string # NoString THEN Verdict(FALSE, "Unclosed string literal")
         ELSE IF s.brace # 0 THEN Verdict(FALSE, "Unclosed braces {}")
         ELSE IF s.bracket # 0 THEN Verdict(FALSE, "Unclosed brackets []")
         ELSE IF s.paren # 0 THEN Verdict(FALSE, "Unclosed parentheses ()")
         ELSE Heuristics(Strip(e))

\* the loop from character k on, in state s
RECURSIVE ScanFrom(_, _, _, _)
ScanFrom(v, e, k, s) ==
    IF s.ret # NoRet THEN s.ret
    ELSE IF k > Len(e) THEN FinalChecks(v, e, s)
    ELSE ScanFrom(v, e, k + 1, LoopBody(v, s, e[k], k - 1))

\* an early return, or else the rest of the function
OrElse(early, rest) == IF early # NoRet THEN early ELSE rest

\* is_promql_syntax_valid(expr) for a text
is_promql_syntax_valid(v, e) == OrElse(PreCheck(v, e), ScanFrom(v, e, 1, ScanInit))

(***************************************************************************)
(* The types of a parsed YAML or JSON value.                               *)
(***************************************************************************)
Null == [t |-> "null"]
Num(n) == [t |-> "num", n |-> n]
Bool(b) == [t |-> "bool", b |-> b]
Str(s) == [t |-> "str", s |-> s]
List(xs) == [t |-> "list", xs |-> xs]
Map(m) == [t |-> "map", m |-> m]

EmptyMap == <<>>

(***************************************************************************)
(* The clients, and the stores at startup.  A table is the set of its rows.*)
(***************************************************************************)
Clients == {"c1", "c2"}

NoCall == [op |-> "none"]

NoReport == [call |-> "none"]

\* a fresh session: no Flask-Login user id (0), no admin_logged_in flag
NoSession == [user_id |-> 0, admin_logged_in |-> FALSE]

\* hasattr(app, "_editor") is false
NoEditor == [set |-> FALSE]

\* the text of a template: empty or not, and what yaml.safe_load does with it
SeedContent == [empty |-> FALSE, parses |-> TRUE, doc |-> Map("groups" :> List(<<>>))]

\* seed_default_templates fills the empty table at startup
SeedTemplates == { [id |-> 1, name |-> <<"s">>, type |-> "rule", content |-> SeedContent] }

(***************************************************************************)
(* A call of is_promql_syntax_valid, one loop iteration per step.  The     *)
(* callers are api_validate_promql (root, v2) and the rule validator.      *)
(***************************************************************************)
NoReq == [call |-> "none"]

NoResp == [status |-> 0]

\* the locals of the scan as a record
Locals == [brace |-> brace, bracket |-> bracket, paren |-> paren,
           in_string |-> in_string, escape |-> escape, ret |-> NoRet]

SetLocals(s) ==
    /\ brace' = s.brace
    /\ bracket' = s.bracket
    /\ paren' = s.paren
    /\ in_string' = s.in_string
    /\ escape' = s.escape

\* where the call stands after the checks before the loop
AfterPreCheck(pre) ==
    IF pre # NoRet
    THEN pc' = "done" /\ resp' = pre
    ELSE pc' = "scan" /\ resp' = NoResp

\* entry of is_promql_syntax_valid: the checks before the loop
ScanStart(e) ==
    /\ pc = "idle"
    /\ req' = [call |-> "is_promql_syntax_valid"]
    /\ expr' = e
    /\ i' = 1
    /\ SetLocals(ScanInit)
    /\ AfterPreCheck(PreCheck(variant, e))
    /\ ran' = <<"is_promql_syntax_valid">>
    /\ UNCHANGED variant
    /\ UNCHANGED appVars

\* where the call stands after an iteration that leaves the locals s
AfterLoopBody(s) ==
    /\ SetLocals(s)
    /\ IF s.ret # NoRet
       THEN pc' = "done" /\ resp' = s.ret /\ i' = i
       ELSE pc' = "scan" /\ resp' = resp /\ i' = i + 1

\* one iteration of the loop
ScanChar ==
    /\ pc = "scan"
    /\ i <= Len(expr)
    /\ AfterLoopBody(LoopBody(variant, Locals, expr[i], i - 1))
    /\ UNCHANGED <<variant, req, ran, expr>>
    /\ UNCHANGED appVars

\* the loop is over: the checks after it
ScanEnd ==
    /\ pc = "scan"
    /\ i > Len(expr)
    /\ pc' = "done"
    /\ resp' = FinalChecks(variant, expr, Locals)
    /\ UNCHANGED <<variant, req, ran, expr, i, brace, bracket, paren, in_string, escape>>
    /\ UNCHANGED appVars

\* the caller has the result: the call is over
Return ==
    /\ pc = "done"
    /\ pc' = "idle"
    /\ req' = NoReq
    /\ resp' = NoResp
    /\ ran' = <<>>
    /\ expr' = <<>>
    /\ i' = 1
    /\ SetLocals(ScanInit)
    /\ UNCHANGED variant
    /\ UNCHANGED appVars

\* no request is being handled
InitEngine ==
    /\ variant \in Variants
    /\ pc = "idle"
    /\ req = NoReq
    /\ resp = NoResp
    /\ ran = <<>>
    /\ expr = <<>>
    /\ i = 1
    /\ brace = 0
    /\ bracket = 0
    /\ paren = 0
    /\ in_string = NoString
    /\ escape = FALSE

\* the stores after startup: no admin, no password, the seeded templates
InitStores ==
    /\ admins = {}
    /\ templates = IF variant = "root" THEN SeedTemplates ELSE {}
    /\ editor = NoEditor
    /\ settings = {}
    /\ rulesTable = {}
    /\ session = [c \in Clients |-> NoSession]
    /\ calls = [c \in Clients |-> NoCall]
    /\ reports = [c \in Clients |-> NoReport]

Init == InitEngine /\ InitStores

NextScan ==
    \/ pc = "idle" /\ \E e \in Texts : ScanStart(e)
    \/ ScanChar
    \/ ScanEnd
    \/ Return

SpecScan == Init /\ [][NextScan]_vars

\* the stepwise scan and the operator agree
ScanAgrees ==
    (pc = "done" /\ req.call = "is_promql_syntax_valid")
        => resp = is_promql_syntax_valid(variant, expr)

(***************************************************************************)
(* Parsed YAML values (the result of yaml.safe_load) and the Python        *)
(* operations the validators apply to them.                                *)
(***************************************************************************)
\* bool(x)
Truthy(n) ==
    CASE n.t = "null" -> FALSE
      [] n.t = "num" -> n.n # 0
      [] n.t = "bool" -> n.b
      [] n.t = "str" -> n.s # <<>>
      [] n.t = "list" -> n.xs # <<>>
      [] n.t = "map" -> DOMAIN n.m # {}

\* x or y
PyOr(x, y) == IF Truthy(x) THEN x ELSE y

\* isinstance(x, dict), isinstance(x, list), isinstance(x, str)
IsDict(n) == n.t = "map"
IsList(n) == n.t = "list"
IsStr(n) == n.t = "str"

\* key in d, d.get(key) and d[key], for a dict d
Has(d, key) == key \in DOMAIN d.m
Get(d, key) == IF key \in DOMAIN d.m THEN d.m[key] ELSE Null

\* hash(x) raises TypeError for a list or a dict
Hashable(n) == n.t \notin {"list", "map"}

\* the keys of a dict in some order
RECURSIVE KeySeq(_)
KeySeq(ks) ==
    IF ks = {} THEN <<>>
    ELSE LET k == CHOOSE x \in ks : TRUE IN <<Str(<<k>>)>> \o KeySeq(ks \ {k})

\* iter(x): the items a for loop visits; a null, number or bool is not iterable
Iterable(n) == n.t \in {"list", "str", "map"}

Items(n) ==
    CASE n.t = "list" -> n.xs
      [] n.t = "str" -> [k \in 1..Len(n.s) |-> Str(<<n.s[k]>>)]
      [] n.t = "map" -> KeySeq(DOMAIN n.m)

\* function results: exc = "none" (a normal return) or the exception raised
NoExc == "none"

\* a diagnostic: the message format, its indices and its interpolated value
NoArg == [t |-> "none"]
Diag(msg, gi, rj, arg) == [msg |-> msg, i |-> gi, j |-> rj, arg |-> arg]

Ok(errs) == [exc |-> NoExc, errs |-> errs]
Raise(exc) == [exc |-> exc, errs |-> <<>>]

\* is_promql_syntax_valid(expr) for any value: "not expr" is true for every
\* falsy value, and expr.strip() raises AttributeError for a truthy non-string
ScanValue(v, n) ==
    IF ~Truthy(n)
    THEN [exc |-> NoExc, res |-> PreCheck(v, <<>>)]
    ELSE IF ~IsStr(n)
    THEN [exc |-> "AttributeError", res |-> NoRet]
    ELSE [exc |-> NoExc, res |-> is_promql_syntax_valid(v, n.s)]

(***************************************************************************)
(* validate_prometheus_rules                                               *)
(***************************************************************************)
\* root only: the type checks of alert, record, for, labels, annotations
RuleTypeChecks(v, gi, rj, r) ==
    IF v # "root" THEN <<>>
    ELSE (IF Has(r, "alert") /\ ~IsStr(Get(r, "alert"))
          THEN <<Diag("Group #{i} Rule #{j} 'alert' must be a string", gi, rj, NoArg)>> ELSE <<>>)
      \o (IF Has(r, "record") /\ ~IsStr(Get(r, "record"))
          THEN <<Diag("Group #{i} Rule #{j} 'record' must be a string", gi, rj, NoArg)>> ELSE <<>>)
      \o (IF Has(r, "for") /\ ~IsStr(Get(r, "for"))
          THEN <<Diag("Group #{i} Rule #{j} 'for' must be a string", gi, rj, NoArg)>> ELSE <<>>)
      \o (IF Has(r, "labels") /\ ~IsDict(Get(r, "labels"))
          THEN <<Diag("Group #{i} Rule #{j} 'labels' must be a dict", gi, rj, NoArg)>> ELSE <<>>)
      \o (IF Has(r, "annotations") /\ ~IsDict(Get(r, "annotations"))
          THEN <<Diag("Group #{i} Rule #{j} 'annotations' must be a dict", gi, rj, NoArg)>> ELSE <<>>)

\* a raised exception ends the function; else the diagnostics add up
AndThen(a, errs) == IF a.exc # NoExc THEN a ELSE Ok(a.errs \o errs)

After(errs, a) == IF a.exc # NoExc THEN a ELSE Ok(errs \o a.errs)

Both(a, b) ==
    IF a.exc # NoExc THEN a
    ELSE IF b.exc # NoExc THEN b
    ELSE Ok(a.errs \o b.errs)

\* variation: an expression the scanner rejects gets no diagnostic
ExprDiagSilent(v, gi, rj, e, sc) ==
    IF sc.exc # NoExc THEN Raise(sc.exc) ELSE Ok(<<>>)

\* the diagnostic for the scan sc of the expression e
ExprDiag(v, gi, rj, e, sc) ==
    IF sc.exc # NoExc THEN Raise(sc.exc)
    ELSE IF sc.res.valid THEN Ok(<<>>)
    ELSE IF v = "root"
    THEN Ok(<<Diag("Group #{i} Rule #{j} has invalid PromQL: {expr}", gi, rj, e)>>)
    ELSE Ok(<<Diag("Group #{i} Rule #{j} invalid PromQL: {err_msg}", gi, rj, sc.res.error)>>)

\* expr = r.get("expr") or ""
ExprOf(r) == PyOr(Get(r, "expr"), Str(<<>>))

\* variation: a rule without expr is let through
RuleExprCheckOptional(v, gi, rj, r) ==
    IF ~Has(r, "expr") THEN Ok(<<>>)
    ELSE ExprDiag(v, gi, rj, ExprOf(r), ScanValue(v, ExprOf(r)))

\* the expr check of one rule mapping
RuleExprCheck(v, gi, rj, r) ==
    IF ~Has(r, "expr")
    THEN Ok(<<Diag("Group #{i} Rule #{j} missing 'expr'", gi, rj, NoArg)>>)
    ELSE ExprDiag(v, gi, rj, ExprOf(r), ScanValue(v, ExprOf(r)))

\* the body of the rule loop
RuleCheck(v, gi, rj, r) ==
    IF ~IsDict(r)
    THEN Ok(<<Diag("Group #{i} Rule #{j} must be a dict", gi, rj, NoArg)>>)
    ELSE AndThen(RuleExprCheck(v, gi, rj, r), RuleTypeChecks(v, gi, rj, r))

\* for j, r in enumerate(g["rules"], start=1), from rule rj on
RECURSIVE RulesLoop(_, _, _, _)
RulesLoop(v, gi, rules, rj) ==
    IF rj > Len(rules) THEN Ok(<<>>)
    ELSE Both(RuleCheck(v, gi, rj, rules[rj]), RulesLoop(v, gi, rules, rj + 1))

\* variation: the group is numbered from 0
NameCheckFromZero(gi, g) ==
    IF ~Has(g, "name") THEN <<Diag("Group #{i} missing 'name'", gi - 1, 0, NoArg)>> ELSE <<>>

\* the name check of a group mapping
NameCheck(gi, g) ==
    IF ~Has(g, "name") THEN <<Diag("Group #{i} missing 'name'", gi, 0, NoArg)>> ELSE <<>>

\* the body of the group loop
GroupCheck(v, gi, g) ==
    IF ~IsDict(g)
    THEN Ok(<<Diag("Group #{i} must be a dict", gi, 0, NoArg)>>)
    ELSE IF ~Has(g, "rules")
    THEN Ok(NameCheck(gi, g) \o <<Diag("Group #{i} missing 'rules'", gi, 0, NoArg)>>)
    ELSE IF ~IsList(Get(g, "rules"))
    THEN Ok(NameCheck(gi, g) \o <<Diag("Group #{i} 'rules' must be a list", gi, 0, NoArg)>>)
    ELSE After(NameCheck(gi, g), RulesLoop(v, gi, Get(g, "rules").xs, 1))

\* variation: the loop ends at the first group that is not a mapping
RECURSIVE GroupsLoopBreak(_, _, _)
GroupsLoopBreak(v, groups, gi) ==
    IF gi > Len(groups) THEN Ok(<<>>)
    ELSE IF ~IsDict(groups[gi]) THEN GroupCheck(v, gi, groups[gi])
    ELSE Both(GroupCheck(v, gi, groups[gi]), GroupsLoopBreak(v, groups, gi + 1))

\* for i, g in enumerate(doc["groups"], start=1), from group gi on
RECURSIVE GroupsLoop(_, _, _)
GroupsLoop(v, groups, gi) ==
    IF gi > Len(groups) THEN Ok(<<>>)
    ELSE Both(GroupCheck(v, gi, groups[gi]), GroupsLoop(v, groups, gi + 1))

validate_prometheus_rules(v, doc) ==
    IF ~IsDict(doc) THEN Ok(<<Diag("Prometheus rules must be a dict", 0, 0, NoArg)>>)
    ELSE IF ~Has(doc, "groups") THEN Ok(<<Diag("Missing 'groups' key", 0, 0, NoArg)>>)
    ELSE IF ~IsList(Get(doc, "groups")) THEN Ok(<<Diag("'groups' must be a list", 0, 0, NoArg)>>)
    ELSE GroupsLoop(v, Get(doc, "groups").xs, 1)

(***************************************************************************)
(* validate_alertmanager_config (root variant only)                        *)
(***************************************************************************)
\* route = doc.get("route") or {}
RouteOf(doc) == PyOr(Get(doc, "route"), Map(EmptyMap))

\* the route block
RouteChecks(doc) ==
    IF ~Has(doc, "route") THEN <<Diag("Missing 'route'", 0, 0, NoArg)>>
    ELSE IF ~IsDict(RouteOf(doc)) THEN <<Diag("'route' must be a dict", 0, 0, NoArg)>>
    ELSE IF ~Has(RouteOf(doc), "receiver") THEN <<Diag("Route missing 'receiver'", 0, 0, NoArg)>>
    ELSE <<>>

\* the body of the receiver loop; st holds the names collected and the
\* diagnostics appended so far, and the exception raised if any
ReceiverCheck(st, idx, r) ==
    IF ~IsDict(r)
    THEN [st EXCEPT !.errs = Append(@, Diag("Receiver #{idx} must be a dict", idx, 0, NoArg))]
    ELSE IF ~Has(r, "name")
    THEN [st EXCEPT !.errs = Append(@, Diag("Receiver #{idx} missing 'name'", idx, 0, NoArg))]
    ELSE IF ~Hashable(Get(r, "name")) THEN [st EXCEPT !.exc = "TypeError"]
    ELSE [st EXCEPT !.errs = IF Get(r, "name") \in st.names
                              THEN Append(@, Diag("Duplicate receiver name '{name}'", 0, 0, Get(r, "name")))
                              ELSE @,
                     !.names = @ \cup {Get(r, "name")}]

\* for idx, r in enumerate(rcvs, start=1), from receiver idx on
RECURSIVE ReceiversLoop(_, _, _)
ReceiversLoop(rcvs, idx, st) ==
    IF st.exc # NoExc \/ idx > Len(rcvs) THEN st
    ELSE ReceiversLoop(rcvs, idx + 1, ReceiverCheck(st, idx, rcvs[idx]))

\* the reference check after the loop, for the truthy route receiver rr
ReferenceCheck(rr, names) ==
    IF ~Hashable(rr) THEN Raise("TypeError")
    ELSE IF rr \notin names
    THEN Ok(<<Diag("Route references unknown receiver '{receiver}'", 0, 0, rr)>>)
    ELSE Ok(<<>>)

\* if "route" in doc and doc["route"].get("receiver"): ...
RouteReference(doc, names) ==
    IF ~Has(doc, "route") THEN Ok(<<>>)
    ELSE IF ~IsDict(Get(doc, "route")) THEN Raise("AttributeError")
    ELSE IF ~Truthy(Get(Get(doc, "route"), "receiver")) THEN Ok(<<>>)
    ELSE ReferenceCheck(Get(Get(doc, "route"), "receiver"), names)

\* the receiver loop is over in state st: the reference check follows
AfterReceivers(doc, st) ==
    IF st.exc # NoExc THEN Raise(st.exc)
    ELSE After(st.errs, RouteReference(doc, st.names))

\* rcvs = doc.get("receivers") or []
ReceiversOf(doc) == PyOr(Get(doc, "receivers"), List(<<>>))

\* the receivers block
ReceiversChecks(doc) ==
    IF ~Has(doc, "receivers") THEN Ok(<<Diag("Missing 'receivers'", 0, 0, NoArg)>>)
    ELSE IF ~IsList(ReceiversOf(doc)) THEN Ok(<<Diag("'receivers' must be a list", 0, 0, NoArg)>>)
    ELSE AfterReceivers(doc,
             ReceiversLoop(ReceiversOf(doc).xs, 1, [exc |-> NoExc, errs |-> <<>>, names |-> {}]))

\* the inhibit_rules block
InhibitChecks(doc) ==
    IF Has(doc, "inhibit_rules") /\ ~IsList(Get(doc, "inhibit_rules"))
    THEN <<Diag("'inhibit_rules' must be a list", 0, 0, NoArg)>>
    ELSE <<>>

validate_alertmanager_config(doc) ==
    IF ~IsDict(doc) THEN Ok(<<Diag("Alertmanager config must be a dict", 0, 0, NoArg)>>)
    ELSE AndThen(After(RouteChecks(doc), ReceiversChecks(doc)), InhibitChecks(doc))

(***************************************************************************)
(* /api/validate/yaml                                                      *)
(***************************************************************************)
\* load_yaml: yaml.safe_load either raises, and load_yaml raises
\* ValueError("Invalid YAML: ..."), or returns the parsed document.  A request
\* content is given by what safe_load does with it.
load_yaml(content) ==
    IF content.parses
    THEN [exc |-> NoExc, doc |-> content.doc]
    ELSE [exc |-> "ValueError",
          msg |-> Diag("Invalid YAML: {e}", 0, 0, [t |-> "exc", e |-> content.err])]

NoCount == [checked |-> 0, invalid |-> 0, exc |-> NoExc]

\* one more expression counted, with the outcome sc of its scan
Tally(c, sc) ==
    IF sc.exc # NoExc THEN [c EXCEPT !.checked = @ + 1, !.exc = sc.exc]
    ELSE IF sc.res.valid THEN [c EXCEPT !.checked = @ + 1]
    ELSE [c EXCEPT !.checked = @ + 1, !.invalid = @ + 1]

\* root: expr = r.get("expr") if isinstance(r, dict) else None
RootExprOf(r) == IF IsDict(r) THEN Get(r, "expr") ELSE Null

\* root: the body of the inner loop
RootCountRule(c, r) ==
    IF ~Truthy(RootExprOf(r)) THEN c ELSE Tally(c, ScanValue("root", RootExprOf(r)))

\* root: the inner loop "for r in (g.get('rules') or [])"; an exception ends
\* the scan (except Exception: pass) with the counts reached
RECURSIVE RootCountRules(_, _, _)
RootCountRules(rules, k, c) ==
    IF c.exc # NoExc \/ k > Len(rules) THEN c
    ELSE RootCountRules(rules, k + 1, RootCountRule(c, rules[k]))

\* root: g.get("rules") or []
RootRulesOf(g) == PyOr(Get(g, "rules"), List(<<>>))

\* root: the body of the outer loop
RootCountGroup(c, g) ==
    IF ~IsDict(g) THEN [c EXCEPT !.exc = "AttributeError"]
    ELSE IF ~Iterable(RootRulesOf(g)) THEN [c EXCEPT !.exc = "TypeError"]
    ELSE RootCountRules(Items(RootRulesOf(g)), 1, c)

\* root: the outer loop "for g in (doc.get('groups') or [])"
RECURSIVE RootCountGroups(_, _, _)
RootCountGroups(groups, k, c) ==
    IF c.exc # NoExc \/ k > Len(groups) THEN c
    ELSE RootCountGroups(groups, k + 1, RootCountGroup(c, groups[k]))

\* root: doc.get("groups") or []
RootGroupsOf(doc) == PyOr(Get(doc, "groups"), List(<<>>))

\* root: the scan up to the exception that ends it, if any
RootCountTry(doc) ==
    IF ~IsDict(doc) THEN [NoCount EXCEPT !.exc = "AttributeError"]
    ELSE IF ~Iterable(RootGroupsOf(doc)) THEN [NoCount EXCEPT !.exc = "TypeError"]
    ELSE RootCountGroups(Items(RootGroupsOf(doc)), 1, NoCount)

\* except Exception: pass
Swallow(c) == [c EXCEPT !.exc = NoExc]

\* root: the PromQL scan of api_validate_yaml, inside try ... except
RootCount(doc) == Swallow(RootCountTry(doc))

\* v2, v3: the body of the inner loop
CountRule(v, c, r) ==
    IF IsDict(r) /\ Has(r, "expr") THEN Tally(c, ScanValue(v, Get(r, "expr"))) ELSE c

\* v2, v3: the inner loop "for r in g['rules']"
RECURSIVE CountRules(_, _, _, _)
CountRules(v, rules, k, c) ==
    IF c.exc # NoExc \/ k > Len(rules) THEN c
    ELSE CountRules(v, rules, k + 1, CountRule(v, c, rules[k]))

\* v2, v3: the body of the outer loop
CountGroup(v, c, g) ==
    IF IsDict(g) /\ Has(g, "rules")
    THEN IF ~Iterable(Get(g, "rules")) THEN [c EXCEPT !.exc = "TypeError"]
         ELSE CountRules(v, Items(Get(g, "rules")), 1, c)
    ELSE c

\* v2, v3: the outer loop "for g in doc['groups']"
RECURSIVE CountGroups(_, _, _, _)
CountGroups(v, groups, k, c) ==
    IF c.exc # NoExc \/ k > Len(groups) THEN c
    ELSE CountGroups(v, groups, k + 1, CountGroup(v, c, groups[k]))

\* v2, v3: the PromQL scan of api_validate_yaml; an exception leaves the handler
Count(v, doc) ==
    IF IsDict(doc) /\ Has(doc, "groups")
    THEN IF ~Iterable(Get(doc, "groups")) THEN [NoCount EXCEPT !.exc = "TypeError"]
         ELSE CountGroups(v, Items(Get(doc, "groups")), 1, NoCount)
    ELSE NoCount

\* an exception that leaves a handler is answered 500 by Flask
Fault(exc) == [status |-> 500, exc |-> exc]

Report(valid, errors, checked, invalid) ==
    [status |-> 200,
     body |-> [valid |-> valid, errors |-> errors,
               promql_checked |-> checked, promql_invalid |-> invalid]]

\* root: the valid flag is computed from the diagnostics alone
RootValid(errs, c) == Len(errs) = 0

\* v2, v3: from the diagnostics and the invalid count
Valid(errs, c) == Len(errs) = 0 /\ c.invalid = 0

\* root, type "rule": the response for the diagnostics r and the counts c
RootRuleResponse(r, c) ==
    IF r.exc # NoExc
    THEN [resp |-> Fault(r.exc), ran |-> <<"load_yaml", "validate_prometheus_rules">>]
    ELSE [resp |-> Report(RootValid(r.errs, c), r.errs, c.checked, c.invalid),
          ran |-> <<"load_yaml", "validate_prometheus_rules", "promql_scan">>]

\* root, any other type: the response for the diagnostics r
RootRoutingResponse(r) ==
    IF r.exc # NoExc
    THEN [resp |-> Fault(r.exc), ran |-> <<"load_yaml", "validate_alertmanager_config">>]
    ELSE [resp |-> Report(RootValid(r.errs, NoCount), r.errs, 0, 0),
          ran |-> <<"load_yaml", "validate_alertmanager_config">>]

\* the handler after a successful parse, root variant
RootValidateParsed(doc, ttype) ==
    IF ttype = "rule"
    THEN RootRuleResponse(validate_prometheus_rules("root", doc), RootCount(doc))
    ELSE RootRoutingResponse(validate_alertmanager_config(doc))

\* v2, v3: the response for the diagnostics r and the counts c
RuleResponse(r, c) ==
    IF r.exc # NoExc
    THEN [resp |-> Fault(r.exc), ran |-> <<"load_yaml", "validate_prometheus_rules">>]
    ELSE IF c.exc # NoExc
    THEN [resp |-> Fault(c.exc),
          ran |-> <<"load_yaml", "validate_prometheus_rules", "promql_scan">>]
    ELSE [resp |-> Report(Valid(r.errs, c), r.errs, c.checked, c.invalid),
          ran |-> <<"load_yaml", "validate_prometheus_rules", "promql_scan">>]

\* the handler after a successful parse, v2 and v3: always a rule document
ValidateParsed(v, doc) == RuleResponse(validate_prometheus_rules(v, doc), Count(v, doc))

\* the handler after a failed parse
\* variation: the handler reports the parse failure and validates None as well
ParseFailureThenValidate(ld) ==
    [resp |-> Report(FALSE, <<ld.msg, Diag("Prometheus rules must be a dict", 0, 0, NoArg)>>, 0, 0),
     ran |-> <<"load_yaml", "validate_prometheus_rules">>]

ParseFailure(ld) ==
    [resp |-> Report(FALSE, <<ld.msg>>, 0, 0), ran |-> <<"load_yaml">>]

\* the handler after load_yaml returned or raised ld
AfterLoad(v, ld, ttype) ==
    IF ld.exc # NoExc THEN ParseFailure(ld)
    ELSE IF v = "root" THEN RootValidateParsed(ld.doc, ttype)
    ELSE ValidateParsed(v, ld.doc)

api_validate_yaml(v, data) == AfterLoad(v, load_yaml(data.content), data.type)

(***************************************************************************)
(* The documents of the model.  Single-rule documents range over every     *)
(* shape of a rule, a group and the groups field; documents of several     *)
(* groups and rules range over the core shapes, with at most MaxGroups     *)
(* groups and MaxRules rules in all.                                       *)
(***************************************************************************)
UpText == <<"u", "p">>
BadText == <<"(">>

WideExprs ==
    { Null, Num(0), Num(5), Bool(TRUE), Str(<<>>), Str(UpText), Str(BadText),
      Str(<<">", "a">>), List(<<Str(UpText)>>), Map("a" :> Null) }

FieldVals == { Str(<<"a">>), Num(5), Map(EmptyMap), List(<<>>) }

WideRules ==
    { Null, Str(UpText), List(<<>>), Map(EmptyMap) }
    \cup { Map("expr" :> e) : e \in WideExprs }
    \cup { Map(("expr" :> Str(UpText)) @@ (k :> x)) :
              k \in {"alert", "record", "for", "labels", "annotations"}, x \in FieldVals }

WideNameOpts == { EmptyMap, "name" :> Str(<<"g">>), "name" :> Str(<<>>), "name" :> Null }

WideRulesOpts ==
    { EmptyMap }
    \cup { "rules" :> x : x \in { Null, Num(5), Str(<<"a", "b">>), Map("k" :> Null), List(<<>>) } }
    \cup { "rules" :> List(<<r>>) : r \in WideRules }

WideGroups ==
    { Null, Str(<<"g">>), Num(5) }
    \cup { Map(nm @@ rl) : nm \in WideNameOpts, rl \in WideRulesOpts }

WideDocs ==
    { Null, Str(<<"a">>), Num(5), List(<<>>), Map(EmptyMap) }
    \cup { Map("groups" :> x) : x \in { Null, Num(5), Str(<<"a", "b">>), Map("k" :> Null), List(<<>>) } }
    \cup { Map("groups" :> List(<<g>>)) : g \in WideGroups }

CoreRules ==
    { Map("expr" :> Str(UpText)), Map("expr" :> Str(BadText)), Map("expr" :> Num(5)),
      Map(EmptyMap), Null }

CoreNameOpts == { EmptyMap, "name" :> Str(<<"g">>) }

RECURSIVE RuleSeqs(_)
RuleSeqs(k) ==
    IF k = 0 THEN {<<>>}
    ELSE {Append(rs, r) : rs \in RuleSeqs(k - 1), r \in CoreRules}

\* the core groups that hold exactly k rules
CoreGroupsWith(k) ==
    { Map(nm @@ ("rules" :> List(rs))) : nm \in CoreNameOpts, rs \in RuleSeqs(k) }
    \cup (IF k = 0
          THEN { Null, Map("name" :> Str(<<"g">>)),
                 Map(("name" :> Str(<<"g">>)) @@ ("rules" :> Null)) }
          ELSE {})

\* the sequences of n core groups that hold at most b rules in all
RECURSIVE GroupLists(_, _)
GroupLists(n, b) ==
    IF n = 0 THEN {<<>>}
    ELSE UNION { { <<g>> \o rest : g \in CoreGroupsWith(k), rest \in GroupLists(n - 1, b - k) } :
                 k \in 0..b }

CoreDocs ==
    { Map("groups" :> List(gs)) : gs \in UNION { GroupLists(n, MaxRules) : n \in 1..MaxGroups } }

RouteReceiverVals ==
    { Null, Str(<<>>), Str(<<"a">>), Str(<<"c">>), Num(5), List(<<Str(<<"a">>)>>) }

RouteOpts ==
    { EmptyMap }
    \cup { "route" :> x : x \in { Null, Str(<<"r">>), List(<<>>), Map(EmptyMap) } }
    \cup { "route" :> Map("receiver" :> x) : x \in RouteReceiverVals }

ReceiverVals ==
    { Null, Map(EmptyMap), Map("name" :> Str(<<"a">>)), Map("name" :> Str(<<"b">>)),
      Map("name" :> Str(<<"A">>)), Map("name" :> List(<<>>)) }

RECURSIVE ReceiverSeqs(_)
ReceiverSeqs(k) ==
    IF k = 0 THEN {<<>>}
    ELSE {Append(rs, r) : rs \in ReceiverSeqs(k - 1), r \in ReceiverVals}

\* the sequences of k receivers named a or A
RECURSIVE RepeatSeqs(_)
RepeatSeqs(k) ==
    IF k = 0 THEN {<<>>}
    ELSE {Append(rs, Map("name" :> Str(<<n>>))) : rs \in RepeatSeqs(k - 1), n \in {"a", "A"}}

ReceiversOpts ==
    { EmptyMap, "receivers" :> Null, "receivers" :> Str(<<"x">>) }
    \cup { "receivers" :> List(rs) : rs \in UNION { ReceiverSeqs(k) : k \in 0..MaxReceivers } }
    \cup { "receivers" :> List(rs) : rs \in UNION { RepeatSeqs(k) : k \in 0..MaxRepeat } }

InhibitOpts ==
    { EmptyMap, "inhibit_rules" :> List(<<>>), "inhibit_rules" :> Str(<<"x">>) }

RoutingDocs ==
    { Map(a @@ b @@ c) : a \in RouteOpts, b \in ReceiversOpts, c \in InhibitOpts }

Docs == WideDocs \cup CoreDocs \cup RoutingDocs

\* a request content: text that safe_load rejects, or text of a document
Contents ==
    { [parses |-> FALSE, err |-> e] :
          e \in {"mapping values are not allowed here", "could not find expected ':'"} }
    \cup { [parses |-> TRUE, doc |-> d] : d \in Docs }

Requests == { [content |-> c, type |-> ty] : c \in Contents, ty \in {"rule", "alertmanager"} }

\* the handler returns out.resp
Respond(out) == resp' = out.resp /\ ran' = out.ran

\* POST /api/validate/yaml
ApiValidateYaml(data) ==
    /\ pc = "idle"
    /\ pc' = "done"
    /\ req' = [call |-> "api_validate_yaml", data |-> data]
    /\ Respond(api_validate_yaml(variant, data))
    /\ UNCHANGED <<variant, expr, i, brace, bracket, paren, in_string, escape>>
    /\ UNCHANGED appVars

NextYaml ==
    \/ pc = "idle" /\ \E data \in Requests : ApiValidateYaml(data)
    \/ Return

SpecYaml == Init /\ [][NextYaml]_vars

(***************************************************************************)
(* The requests of the clients.  Each client keeps one session and sends   *)
(* one request at a time; a handler that reads the store and writes it     *)
(* later in separate statements is one step per statement, the request     *)
(* staying in calls between the steps.                                     *)
(***************************************************************************)
\* the answer of a handler
Answer(status, body) == [status |-> status, body |-> body]

Redirect(to) == [status |-> 302, location |-> to]

\* f with the entry of client c replaced
Put(f, c, x) == [f EXCEPT ![c] = x]

\* the id SQLite gives a new row of a table with an integer primary key
NextId(rows) ==
    IF rows = {} THEN 1
    ELSE (CHOOSE r \in rows : \A q \in rows : q.id <= r.id).id + 1

\* werkzeug: a hash is given by the password it was made from (the salt is
\* left out: no handler compares two hashes), and check_password_hash tells
\* whether the candidate is that password
generate_password_hash(password) == [method |-> "scrypt", of |-> password]

check_password_hash(hashed, password) == hashed.of = password

\* the form fields and JSON values of the requests
User1 == Str(<<"u", "1">>)
User2 == Str(<<"u", "2">>)
Pass1 == Str(<<"p", "w", "d", "1">>)
Pass2 == Str(<<"p", "w", "d", "2">>)
ShortPass == Str(<<"p", "w", "d">>)

\* a step of a handler of the application: no call of the scanner is under way
EngineIdle ==
    /\ pc = "idle"
    /\ pc' = "done"
    /\ UNCHANGED <<variant, ran, expr, i, brace, bracket, paren, in_string, escape>>

\* the handler of request r answers a
Answers(r, a) == req' = r /\ resp' = a

\* the handler of request r has not answered yet
Pending(r) == req' = r /\ resp' = NoResp

(***************************************************************************)
(* root: Flask-Login sessions, /setup-admin, /login, /logout               *)
(***************************************************************************)
\* load_user and current_user.is_authenticated
load_user(user_id) == { a \in admins : a.id = user_id }

IsAuthenticated(c) == load_user(session[c].user_id) # {}

SetupForms ==
    { [username |-> u, password |-> p] : u \in {Null, User1, User2}, p \in {Null, Pass1} }

\* POST /setup-admin up to the statement before db.commit()
SetupAdmin(c, form) ==
    /\ variant = "root"
    /\ calls[c] = NoCall
    /\ IF admins # {}
       THEN /\ Answers([call |-> "setup_admin", client |-> c, form |-> form],
                       Answer(403, [text |-> "Admin already exists"]))
            /\ UNCHANGED calls
       ELSE IF ~Truthy(form.username) \/ ~Truthy(form.password)
       THEN /\ Answers([call |-> "setup_admin", client |-> c, form |-> form],
                       Answer(400, [text |-> "Username and password required"]))
            /\ UNCHANGED calls
       ELSE /\ Pending([call |-> "setup_admin", client |-> c, form |-> form])
            /\ calls' = Put(calls, c, [op |-> "setup_admin", form |-> form,
                                        password_hash |-> generate_password_hash(form.password)])
    /\ EngineIdle
    /\ UNCHANGED <<admins, templates, editor, settings, rulesTable, session, reports>>

\* the INSERT of db.commit(): column username is unique
InsertAdmin(rows, username, password_hash) ==
    IF \E a \in rows : a.username = username
    THEN [exc |-> "IntegrityError", rows |-> rows]
    ELSE [exc |-> NoExc,
          rows |-> rows \cup {[id |-> NextId(rows), username |-> username,
                               password_hash |-> password_hash]}]

\* where /setup-admin stands after the commit returned or raised ins
SetupAdminAfter(c, ins) ==
    /\ admins' = ins.rows
    /\ Answers([call |-> "setup_admin", client |-> c, form |-> calls[c].form],
               IF ins.exc # NoExc THEN Fault(ins.exc) ELSE Redirect("login"))

\* POST /setup-admin: db.add(admin); db.commit(); redirect
SetupAdminCommit(c) ==
    /\ variant = "root"
    /\ calls[c].op = "setup_admin"
    /\ SetupAdminAfter(c, InsertAdmin(admins, calls[c].form.username, calls[c].password_hash))
    /\ calls' = Put(calls, c, NoCall)
    /\ EngineIdle
    /\ UNCHANGED <<templates, editor, settings, rulesTable, session, reports>>

LoginForms ==
    { [username |-> u, password |-> p] : u \in {User1, User2}, p \in {Null, Pass1, Pass2} }

\* the outcome of "user and user.check_password(password)" for the rows found
LoginOutcome(c, found, password) ==
    IF found = {} THEN [resp |-> Answer(200, [flash |-> "Invalid username or password"]),
                        session |-> session[c]]
    ELSE IF ~IsStr(password) THEN [resp |-> Fault("AttributeError"), session |-> session[c]]
    ELSE IF \E a \in found : check_password_hash(a.password_hash, password)
    THEN [resp |-> Redirect("index"),
          session |-> [session[c] EXCEPT !.user_id = (CHOOSE a \in found : TRUE).id]]
    ELSE [resp |-> Answer(200, [flash |-> "Invalid username or password"]),
          session |-> session[c]]

LoginAfter(c, form, out) ==
    /\ Answers([call |-> "login", client |-> c, form |-> form], out.resp)
    /\ session' = Put(session, c, out.session)

\* POST /login
Login(c, form) ==
    /\ variant = "root"
    /\ calls[c] = NoCall
    /\ IF IsAuthenticated(c)
       THEN LoginAfter(c, form, [resp |-> Redirect("index"), session |-> session[c]])
       ELSE LoginAfter(c, form,
                LoginOutcome(c, {a \in admins : a.username = form.username}, form.password))
    /\ EngineIdle
    /\ UNCHANGED <<admins, templates, editor, settings, rulesTable, calls, reports>>

\* GET /logout: flask_login.login_required redirects an anonymous client
Logout(c) ==
    /\ variant = "root"
    /\ calls[c] = NoCall
    /\ IF IsAuthenticated(c)
       THEN /\ session' = Put(session, c, [session[c] EXCEPT !.user_id = 0])
            /\ Answers([call |-> "logout", client |-> c], Redirect("index"))
       ELSE /\ UNCHANGED session
            /\ Answers([call |-> "logout", client |-> c], Redirect("login"))
    /\ EngineIdle
    /\ UNCHANGED <<admins, templates, editor, settings, rulesTable, calls, reports>>

(***************************************************************************)
(* v3: the session flag admin_logged_in, /api/admin/setup, /api/admin/login *)
(* and /api/admin/logout                                                    *)
(***************************************************************************)
\* SELECT value FROM settings WHERE key='admin_password'
AdminPassword == { r \in settings : r.key = "admin_password" }

PasswordData == { Map(EmptyMap) } \cup { Map("password" :> p) : p \in {Null, ShortPass, Pass1, Pass2, Num(1234)} }

\* len(x)
HasLen(n) == n.t \in {"str", "list", "map"}

PyLen(n) ==
    CASE n.t = "str" -> Len(n.s)
      [] n.t = "list" -> Len(n.xs)
      [] n.t = "map" -> Cardinality(DOMAIN n.m)

MinPasswordLength == 4

\* POST /api/admin/setup up to the statement before the INSERT
ApiAdminSetup(c, data) ==
    /\ variant = "v3"
    /\ calls[c] = NoCall
    /\ IF AdminPassword # {}
       THEN /\ Answers([call |-> "api_admin_setup", client |-> c, data |-> data],
                       Answer(400, [error |-> "Admin already configured"]))
            /\ UNCHANGED calls
       ELSE IF ~Truthy(Get(data, "password"))
       THEN /\ Answers([call |-> "api_admin_setup", client |-> c, data |-> data],
                       Answer(400, [error |-> "Password too short (min 4 chars)"]))
            /\ UNCHANGED calls
       ELSE IF ~HasLen(Get(data, "password"))
       THEN /\ Answers([call |-> "api_admin_setup", client |-> c, data |-> data],
                       Fault("TypeError"))
            /\ UNCHANGED calls
       ELSE IF PyLen(Get(data, "password")) < MinPasswordLength
       THEN /\ Answers([call |-> "api_admin_setup", client |-> c, data |-> data],
                       Answer(400, [error |-> "Password too short (min 4 chars)"]))
            /\ UNCHANGED calls
       ELSE /\ Pending([call |-> "api_admin_setup", client |-> c, data |-> data])
            /\ calls' = Put(calls, c, [op |-> "api_admin_setup", data |-> data,
                                        hashed |-> generate_password_hash(Get(data, "password"))])
    /\ EngineIdle
    /\ UNCHANGED <<admins, templates, editor, settings, rulesTable, session, reports>>

\* INSERT INTO settings (key, value): column key is the primary key
\* variation: the statement is INSERT OR REPLACE
InsertOrReplaceSetting(rows, key, value) ==
    [exc |-> NoExc,
     rows |-> {r \in rows : r.key # key} \cup {[key |-> key, value |-> value]}]

InsertSetting(rows, key, value) ==
    IF \E r \in rows : r.key = key
    THEN [exc |-> "IntegrityError", rows |-> rows]
    ELSE [exc |-> NoExc, rows |-> rows \cup {[key |-> key, value |-> value]}]

\* where /api/admin/setup stands after the INSERT returned or raised ins
ApiAdminSetupAfter(c, ins) ==
    /\ settings' = ins.rows
    /\ IF ins.exc # NoExc
       THEN /\ UNCHANGED session
            /\ Answers([call |-> "api_admin_setup", client |-> c, data |-> calls[c].data],
                       Fault(ins.exc))
       ELSE /\ session' = Put(session, c, [session[c] EXCEPT !.admin_logged_in = TRUE])
            /\ Answers([call |-> "api_admin_setup", client |-> c, data |-> calls[c].data],
                       Answer(200, [status |-> "ok"]))

\* POST /api/admin/setup: INSERT, commit, session['admin_logged_in'] = True
ApiAdminSetupInsert(c) ==
    /\ variant = "v3"
    /\ calls[c].op = "api_admin_setup"
    /\ ApiAdminSetupAfter(c, InsertSetting(settings, "admin_password", calls[c].hashed))
    /\ calls' = Put(calls, c, NoCall)
    /\ EngineIdle
    /\ UNCHANGED <<admins, templates, editor, rulesTable, reports>>

\* "res and check_password_hash(res['value'], password)" for the rows found
AdminLoginOutcome(found, password) ==
    IF found = {} THEN [exc |-> NoExc, ok |-> FALSE]
    ELSE IF ~IsStr(password) THEN [exc |-> "AttributeError", ok |-> FALSE]
    ELSE [exc |-> NoExc, ok |-> \E r \in found : check_password_hash(r.value, password)]

ApiAdminLoginAfter(c, data, out) ==
    IF out.exc # NoExc
    THEN /\ UNCHANGED session
         /\ Answers([call |-> "api_admin_login", client |-> c, data |-> data], Fault(out.exc))
    ELSE IF out.ok
    THEN /\ session' = Put(session, c, [session[c] EXCEPT !.admin_logged_in = TRUE])
         /\ Answers([call |-> "api_admin_login", client |-> c, data |-> data],
                    Answer(200, [status |-> "ok"]))
    ELSE /\ UNCHANGED session
         /\ Answers([call |-> "api_admin_login", client |-> c, data |-> data],
                    Answer(401, [error |-> "Invalid password"]))

\* POST /api/admin/login
ApiAdminLogin(c, data) ==
    /\ variant = "v3"
    /\ calls[c] = NoCall
    /\ ApiAdminLoginAfter(c, data, AdminLoginOutcome(AdminPassword, Get(data, "password")))
    /\ EngineIdle
    /\ UNCHANGED <<admins, templates, editor, settings, rulesTable, calls, reports>>

\* POST /api/admin/logout: session.pop('admin_logged_in', None)
ApiAdminLogout(c) ==
    /\ variant = "v3"
    /\ calls[c] = NoCall
    /\ session' = Put(session, c, [session[c] EXCEPT !.admin_logged_in = FALSE])
    /\ Answers([call |-> "api_admin_logout", client |-> c], Answer(200, [status |-> "ok"]))
    /\ EngineIdle
    /\ UNCHANGED <<admins, templates, editor, settings, rulesTable, calls, reports>>

(***************************************************************************)
(* root: the templates.  A template row keeps the columns the handler      *)
(* decides on: id, name, type and content.                                 *)
(***************************************************************************)
MaxNameLength == 120     \* sanitize_input(..., max_length=120)
MaxTemplateId == 2       \* templates are created while the next id is at most this

\* the markup bleach.clean removes (tags=[], strip=True)
Tags == {"<b>", "</b>"}

\* the characters bleach.clean escapes
Escaped(ch) ==
    CASE ch = "&" -> <<"&", "a", "m", "p", ";">>
      [] ch = "<" -> <<"&", "l", "t", ";">>
      [] ch = ">" -> <<"&", "g", "t", ";">>
      [] OTHER -> <<ch>>

\* bleach.clean(text, tags=[], strip=True), the text taken by halves
RECURSIVE bleach_clean(_)
bleach_clean(text) ==
    IF text = <<>> THEN <<>>
    ELSE IF Len(text) = 1
    THEN IF text[1] \in Tags THEN <<>> ELSE Escaped(text[1])
    ELSE bleach_clean(SubSeq(text, 1, Len(text) \div 2))
             \o bleach_clean(SubSeq(text, Len(text) \div 2 + 1, Len(text)))

\* the cleaned text cut to max_length characters
Truncate(cleaned, max_length) ==
    IF Len(cleaned) > max_length THEN SubSeq(cleaned, 1, max_length) ELSE cleaned

\* variation: the cleaned text is returned at its full length
sanitize_input_uncut(text, max_length) ==
    IF text = <<>> THEN <<>> ELSE bleach_clean(text)

sanitize_input(text, max_length) ==
    IF text = <<>> THEN <<>> ELSE Truncate(bleach_clean(text), max_length)

\* the text of a template: empty, or what yaml.safe_load does with it
EmptyContent == [empty |-> TRUE, parses |-> TRUE, doc |-> Null]
RoutingContent == [empty |-> FALSE, parses |-> TRUE, doc |-> Map("route" :> Map(EmptyMap))]
BrokenContent == [empty |-> FALSE, parses |-> FALSE, err |-> "mapping values are not allowed here"]

Repeat(ch, n) == [k \in 1..n |-> ch]

GoodTemplate == [id |-> Null, name |-> Str(<<"a">>), type |-> "rule", content |-> RoutingContent]

TemplateNames ==
    { Null, Str(<<>>), Str(<<" ">>), Str(<<"<b>", "</b>">>), Str(<<" ", "<b>", "a", "</b>">>),
      Str(<<"s">>), Str(Repeat("x", MaxNameLength + 1)),
      Str(<<"&">> \o Repeat("x", MaxNameLength - 1)) }

\* a well-formed request and the requests that differ from it in one field
TemplateShapes ==
    { [GoodTemplate EXCEPT !.name = n] : n \in TemplateNames }
    \cup { [GoodTemplate EXCEPT !.type = ty] : ty \in {"alertmanager", "other"} }
    \cup { [GoodTemplate EXCEPT !.content = ct] : ct \in {EmptyContent, BrokenContent} }
    \cup { GoodTemplate }

TemplateData ==
    { [d EXCEPT !.id = tid] : d \in TemplateShapes, tid \in {Null} \cup {Num(k) : k \in 1..MaxTemplateId} }

\* the rows another row's name collides with (uix_template_name)
NameTaken(rows, id, name) == \E t \in rows : t.id # id /\ t.name = name

\* existing.name = name; ...; db.commit()
UpdateTemplate(rows, id, name, ttype, content) ==
    IF NameTaken(rows, id, name) THEN [exc |-> "IntegrityError", rows |-> rows, id |-> id]
    ELSE [exc |-> NoExc, id |-> id,
          rows |-> {t \in rows : t.id # id}
                     \cup {[id |-> id, name |-> name, type |-> ttype, content |-> content]}]

\* db.add(Template(...)); db.commit()
AddTemplate(rows, name, ttype, content) ==
    UpdateTemplate(rows, NextId(rows), name, ttype, content)

\* the database part of the handler, for the sanitized name
StoreTemplate(data, name) ==
    IF data.id = Null THEN AddTemplate(templates, name, data.type, data.content)
    ELSE IF \A t \in templates : t.id # data.id.n
    THEN [exc |-> "NotFound", rows |-> templates, id |-> 0]
    ELSE UpdateTemplate(templates, data.id.n, name, data.type, data.content)

\* the answer for the outcome st of the database part
StoredAnswer(st) ==
    IF st.exc = "NotFound" THEN Answer(404, [error |-> "template not found"])
    ELSE IF st.exc # NoExc THEN Fault(st.exc)
    ELSE Answer(200, [id |-> st.id])

\* the checks of the handler in their order, for the sanitized name; the
\* outcome holds the rows of the table after the request
CheckedTemplate(data, name) ==
    IF name = <<>> THEN [resp |-> Answer(400, [error |-> "name is required"]), rows |-> templates]
    ELSE IF data.type \notin {"rule", "alertmanager"}
    THEN [resp |-> Answer(400, [error |-> "invalid type"]), rows |-> templates]
    ELSE IF data.content.empty
    THEN [resp |-> Answer(400, [error |-> "content is required"]), rows |-> templates]
    ELSE IF load_yaml(data.content).exc # NoExc
    THEN [resp |-> Answer(400, [error |-> "Invalid YAML"]), rows |-> templates]
    ELSE [resp |-> StoredAnswer(StoreTemplate(data, name)),
          rows |-> StoreTemplate(data, name).rows]

\* the handler behind admin_required: data.get("name", "").strip() raises
\* for a name that is not a string
template_create(data) ==
    IF ~IsStr(data.name) THEN [resp |-> Fault("AttributeError"), rows |-> templates]
    ELSE CheckedTemplate(data, sanitize_input(Strip(data.name.s), MaxNameLength))

\* admin_required
\* variation: the decorator lets every client through
admin_required_open(c, out) == out

admin_required(c, out) ==
    IF ~IsAuthenticated(c)
    THEN [resp |-> Answer(401, [error |-> "Login required"]), rows |-> templates]
    ELSE out

TemplateAfter(r, out) ==
    /\ Answers(r, out.resp)
    /\ templates' = out.rows

\* a new row is created only while the ids stay within MaxTemplateId
WithinIds(data) == data.id # Null \/ NextId(templates) <= MaxTemplateId

\* POST /api/template
ApiTemplateCreate(c, data) ==
    /\ variant = "root"
    /\ calls[c] = NoCall
    /\ WithinIds(data)
    /\ TemplateAfter([call |-> "api_template_create", client |-> c, data |-> data],
                     admin_required(c, template_create(data)))
    /\ EngineIdle
    /\ UNCHANGED <<admins, editor, settings, rulesTable, session, calls, reports>>

template_delete(tid) ==
    IF \A t \in templates : t.id # tid
    THEN [resp |-> Answer(404, [error |-> "not found"]), rows |-> templates]
    ELSE [resp |-> Answer(200, [status |-> "ok"]), rows |-> {t \in templates : t.id # tid}]

\* DELETE /api/template/<tid>
ApiTemplateDelete(c, tid) ==
    /\ variant = "root"
    /\ calls[c] = NoCall
    /\ TemplateAfter([call |-> "api_template_delete", client |-> c, tid |-> tid],
                     admin_required(c, template_delete(tid)))
    /\ EngineIdle
    /\ UNCHANGED <<admins, editor, settings, rulesTable, session, calls, reports>>

(***************************************************************************)
(* v3: the rules.  A row keeps id, name, job and rules_json.               *)
(***************************************************************************)
\* str.lower() on the letters of the model
Lower(ch) ==
    CASE ch = "N" -> "n"
      [] ch = "R" -> "r"
      [] OTHER -> ch

\* name.lower().replace(" ", "_").replace("/", "_")
Slug(name) ==
    [k \in 1..Len(name) |-> IF name[k] \in {" ", "/"} THEN "_" ELSE Lower(name[k])]

\* the default of data.get("name", "New Rule")
NewRule == Str(<<"N", "e", "w", " ", "R", "u", "l", "e">>)

\* the default of data.get("job", "job-name")
JobName == Str(<<"j", "o", "b", "-", "n", "a", "m", "e">>)

\* d.get(key, default)
GetOr(d, key, default) == IF key \in DOMAIN d.m THEN d.m[key] ELSE default

\* json.dumps and json.loads
json_dumps(n) == [json |-> n]
json_loads(text) == text.json

\* int(os.urandom(2).hex(), 16) as a decimal text: two of its outcomes
RandomSuffixes == {<<"7">>, <<"4", "2">>}

\* @login_required
\* variation: the decorator lets every client through
login_required_open(c, out) == out

login_required(c, out) ==
    IF ~session[c].admin_logged_in
    THEN [resp |-> Answer(401, [error |-> "Unauthorized"]), rows |-> rulesTable]
    ELSE out

\* the groups a request carries as rules_logic
UpRule == Map(("alert" :> Str(<<"A">>)) @@ ("expr" :> Str(UpText)))
UpGroup == Map(("name" :> Str(<<"g">>)) @@ ("rules" :> List(<<UpRule>>)))
EmptyGroup == Map(("name" :> Str(<<"g">>)) @@ ("rules" :> List(<<>>)))
NamelessGroup == Map("rules" :> List(<<UpRule>>))
BadExprGroup ==
    Map(("name" :> Str(<<"g">>))
        @@ ("rules" :> List(<<Map(("alert" :> Str(<<"A">>)) @@ ("expr" :> Str(BadText)))>>)))
NumberExprGroup ==
    Map(("name" :> Str(<<"g">>))
        @@ ("rules" :> List(<<Map(("alert" :> Str(<<"A">>)) @@ ("expr" :> Num(5)))>>)))

RulesLogic ==
    { Null, List(<<UpGroup>>), UpGroup, EmptyGroup, NamelessGroup, BadExprGroup, NumberExprGroup }

NameOpts == { EmptyMap, "name" :> Null }

\* requests with a name and a job, for each rules_logic, and requests
\* without one of them
RuleData ==
    { Map(("rules_logic" :> g) @@ ("job" :> Str(<<"j">>)) @@ ("name" :> NewRule)) : g \in RulesLogic }
    \cup { Map(("rules_logic" :> UpGroup) @@ ("job" :> Str(<<"j">>)) @@ nm) : nm \in NameOpts }
    \cup { Map(("rules_logic" :> UpGroup) @@ ("name" :> NewRule)), Map(EmptyMap) }

\* the ids a request path names
RuleIds == { Slug(NewRule.s), Slug(NewRule.s) \o <<"_", "7">>, <<"x">> }

\* the validation both write handlers run first: the answer that ends the
\* request, or NoResp when the request goes on to the database
\* variation: the handler goes on whatever the validator returned
ValidationGateOpen(data, r) ==
    IF ~IsDict(Get(data, "rules_logic"))
    THEN Answer(400, [error |-> "Invalid data format. Expected a group object."])
    ELSE NoResp

ValidationGate(data, r) ==
    IF ~IsDict(Get(data, "rules_logic"))
    THEN Answer(400, [error |-> "Invalid data format. Expected a group object."])
    ELSE IF r.exc # NoExc THEN Fault(r.exc)
    ELSE IF r.errs # <<>> THEN Answer(400, [valid |-> FALSE, errors |-> r.errs])
    ELSE NoResp

\* validate_prometheus_rules({"groups": [rules_data]})
ValidateLogic(data) ==
    IF ~IsDict(Get(data, "rules_logic")) THEN Ok(<<>>)
    ELSE validate_prometheus_rules("v3", Map("groups" :> List(<<Get(data, "rules_logic")>>)))

\* INSERT INTO rules: id is the primary key; the handler answers 500 with
\* the message of an exception of the statement
InsertRule(tid, name, job, rules_data) ==
    IF \E r \in rulesTable : r.id = tid
    THEN [resp |-> Answer(500, [error |-> "UNIQUE constraint failed: rules.id"]), rows |-> rulesTable]
    ELSE [resp |-> Answer(200, [status |-> "ok", id |-> tid]),
          rows |-> rulesTable \cup {[id |-> tid, name |-> name, job |-> job,
                                rules_json |-> json_dumps(rules_data)]}]

\* the id of the new row: the slug, with a random suffix when the slug is taken
NewIds(slug) ==
    IF \E r \in rulesTable : r.id = slug
    THEN { slug \o <<"_">> \o sfx : sfx \in RandomSuffixes }
    ELSE { slug }

\* POST /api/admin/rules behind login_required, with the id tid drawn
create_rule(data, tid) ==
    IF ValidationGate(data, ValidateLogic(data)) # NoResp
    THEN [resp |-> ValidationGate(data, ValidateLogic(data)), rows |-> rulesTable]
    ELSE IF ~IsStr(GetOr(data, "name", NewRule))
    THEN [resp |-> Fault("AttributeError"), rows |-> rulesTable]
    ELSE InsertRule(tid, GetOr(data, "name", NewRule), GetOr(data, "job", JobName),
                    Get(data, "rules_logic"))

\* the slug of the name a request carries, when it is a string
SlugOf(data) ==
    IF IsStr(GetOr(data, "name", NewRule)) THEN Slug(GetOr(data, "name", NewRule).s) ELSE <<>>

RulesAfter(r, out) ==
    /\ Answers(r, out.resp)
    /\ rulesTable' = out.rows

\* POST /api/admin/rules
ApiAdminCreateRule(c, data) ==
    /\ variant = "v3"
    /\ calls[c] = NoCall
    /\ \E tid \in NewIds(SlugOf(data)) :
           RulesAfter([call |-> "api_admin_create_rule", client |-> c, data |-> data],
                      login_required(c, create_rule(data, tid)))
    /\ EngineIdle
    /\ UNCHANGED <<admins, templates, editor, settings, session, calls, reports>>

\* UPDATE rules SET ... WHERE id=?: columns name and job are NOT NULL
UpdateRule(tid, name, job, rules_data) ==
    IF \A r \in rulesTable : r.id # tid
    THEN [resp |-> Answer(200, [status |-> "ok"]), rows |-> rulesTable]
    ELSE IF name = Null \/ job = Null
    THEN [resp |-> Answer(500, [error |-> "NOT NULL constraint failed"]), rows |-> rulesTable]
    ELSE [resp |-> Answer(200, [status |-> "ok"]),
          rows |-> {r \in rulesTable : r.id # tid}
                     \cup {[id |-> tid, name |-> name, job |-> job,
                            rules_json |-> json_dumps(rules_data)]}]

\* PUT /api/admin/rules/<tid> behind login_required
update_rule(tid, data) ==
    IF ValidationGate(data, ValidateLogic(data)) # NoResp
    THEN [resp |-> ValidationGate(data, ValidateLogic(data)), rows |-> rulesTable]
    ELSE UpdateRule(tid, Get(data, "name"), Get(data, "job"), Get(data, "rules_logic"))

\* PUT /api/admin/rules/<tid>
ApiAdminUpdateRule(c, tid, data) ==
    /\ variant = "v3"
    /\ calls[c] = NoCall
    /\ RulesAfter([call |-> "api_admin_update_rule", client |-> c, tid |-> tid, data |-> data],
                  login_required(c, update_rule(tid, data)))
    /\ EngineIdle
    /\ UNCHANGED <<admins, templates, editor, settings, session, calls, reports>>

delete_rule(tid) ==
    [resp |-> Answer(200, [status |-> "ok"]), rows |-> {r \in rulesTable : r.id # tid}]

\* DELETE /api/admin/rules/<tid>
ApiAdminDeleteRule(c, tid) ==
    /\ variant = "v3"
    /\ calls[c] = NoCall
    /\ RulesAfter([call |-> "api_admin_delete_rule", client |-> c, tid |-> tid],
                  login_required(c, delete_rule(tid)))
    /\ EngineIdle
    /\ UNCHANGED <<admins, templates, editor, settings, session, calls, reports>>

(***************************************************************************)
(* The administration of the stores: setup, login, logout and the writes.  *)
(***************************************************************************)
NextAdmin ==
    \/ pc = "idle" /\ \E c \in Clients, form \in SetupForms : SetupAdmin(c, form)
    \/ pc = "idle" /\ \E c \in Clients : SetupAdminCommit(c)
    \/ pc = "idle" /\ \E c \in Clients, form \in LoginForms : Login(c, form)
    \/ pc = "idle" /\ \E c \in Clients : Logout(c)
    \/ pc = "idle" /\ \E c \in Clients, data \in TemplateData : ApiTemplateCreate(c, data)
    \/ pc = "idle" /\ \E c \in Clients, tid \in 1..MaxTemplateId : ApiTemplateDelete(c, tid)
    \/ pc = "idle" /\ \E c \in Clients, data \in PasswordData : ApiAdminSetup(c, data)
    \/ pc = "idle" /\ \E c \in Clients : ApiAdminSetupInsert(c)
    \/ pc = "idle" /\ \E c \in Clients, data \in PasswordData : ApiAdminLogin(c, data)
    \/ pc = "idle" /\ \E c \in Clients : ApiAdminLogout(c)
    \/ pc = "idle" /\ \E c \in Clients, data \in RuleData : ApiAdminCreateRule(c, data)
    \/ pc = "idle" /\ \E c \in Clients, tid \in RuleIds, data \in RuleData : ApiAdminUpdateRule(c, tid, data)
    \/ pc = "idle" /\ \E c \in Clients, tid \in RuleIds : ApiAdminDeleteRule(c, tid)
    \/ Return

SpecAdmin == Init /\ [][NextAdmin]_vars

(***************************************************************************)
(* The validation requests of concurrent clients, next to the requests     *)
(* that read and write the editor state and the stores.  The handler of    *)
(* /api/validate/yaml is two steps: the request is read and parsed, then   *)
(* validated and answered; its locals stay in calls between the steps.     *)
(***************************************************************************)
UpDocument == [parses |-> TRUE, doc |-> Map("groups" :> List(<<UpGroup>>))]

ServeRequests ==
    { [content |-> UpDocument, type |-> "rule"],
      [content |-> UpDocument, type |-> "alertmanager"],
      [content |-> [parses |-> FALSE, err |-> "mapping values are not allowed here"],
       type |-> "rule"] }

ServeExprs == { [expr |-> Str(BadText)] }

\* the report a client receives
Received(c, call, data, answer) ==
    /\ reports' = Put(reports, c, [call |-> call, data |-> data, resp |-> answer])
    /\ Answers([call |-> call, client |-> c, data |-> data], answer)

\* variation: the handler keeps the kind of the request in the editor state
ApiValidateYamlBeginScratch(c, data) ==
    /\ calls[c] = NoCall
    /\ calls' = Put(calls, c, [op |-> "api_validate_yaml", data |-> data,
                               ld |-> load_yaml(data.content)])
    /\ editor' = [set |-> TRUE, name |-> <<>>, type |-> data.type, content |-> SeedContent]
    /\ Pending([call |-> "api_validate_yaml", client |-> c, data |-> data])
    /\ EngineIdle
    /\ UNCHANGED <<admins, templates, settings, rulesTable, session, reports>>

\* POST /api/validate/yaml: data = request.get_json(...); load_yaml(content)
ApiValidateYamlBegin(c, data) ==
    /\ calls[c] = NoCall
    /\ calls' = Put(calls, c, [op |-> "api_validate_yaml", data |-> data,
                               ld |-> load_yaml(data.content)])
    /\ Pending([call |-> "api_validate_yaml", client |-> c, data |-> data])
    /\ EngineIdle
    /\ UNCHANGED <<admins, templates, editor, settings, rulesTable, session, reports>>

\* the kind the handler validates the document as
\* variation: the kind of the shared editor state, once it is set
RequestKindOfEditor(data) == IF editor.set THEN editor.type ELSE data.type

RequestKind(data) == data.type

\* POST /api/validate/yaml: the validation and the answer
ApiValidateYamlEnd(c) ==
    /\ calls[c].op = "api_validate_yaml"
    /\ Received(c, "api_validate_yaml", calls[c].data,
                AfterLoad(variant, calls[c].ld, RequestKind(calls[c].data)).resp)
    /\ calls' = Put(calls, c, NoCall)
    /\ EngineIdle
    /\ UNCHANGED <<admins, templates, editor, settings, rulesTable, session>>

\* the answer of /api/validate/promql for the outcome sc of the scan
PromqlAnswer(v, sc) ==
    IF sc.exc # NoExc THEN Fault(sc.exc)
    ELSE IF v = "root" THEN Answer(200, [valid |-> sc.res.valid])
    ELSE Answer(200, [valid |-> sc.res.valid, error |-> sc.res.error])

api_validate_promql(v, data) == PromqlAnswer(v, ScanValue(v, data.expr))

\* POST /api/validate/promql (root, v2)
ApiValidatePromql(c, data) ==
    /\ variant \in {"root", "v2"}
    /\ calls[c] = NoCall
    /\ Received(c, "api_validate_promql", data, api_validate_promql(variant, data))
    /\ EngineIdle
    /\ UNCHANGED <<admins, templates, editor, settings, rulesTable, session, calls>>

\* now_editor_state(); the fields the download and the page read
now_editor_state == [set |-> TRUE, name |-> <<>>, type |-> "rule", content |-> SeedContent]

\* d.get(key, default) for the JSON object of a request
Field(d, key, default) == IF key \in DOMAIN d THEN d[key] ELSE default

EditorData ==
    { EmptyMap, [name |-> <<"a">>, type |-> "alertmanager", content |-> BrokenContent] }

\* GET /api/state (root): the first request sets app._editor
ApiState(c) ==
    /\ variant = "root"
    /\ calls[c] = NoCall
    /\ editor' = IF editor.set THEN editor ELSE now_editor_state
    /\ Answers([call |-> "api_state", client |-> c], Answer(200, editor'))
    /\ EngineIdle
    /\ UNCHANGED <<admins, templates, settings, rulesTable, session, calls, reports>>

\* POST /api/state (root)
ApiStateSave(c, data) ==
    /\ variant = "root"
    /\ calls[c] = NoCall
    /\ editor' = [set |-> TRUE,
                  name |-> Field(data, "name", <<>>),
                  type |-> Field(data, "type", "rule"),
                  content |-> Field(data, "content", SeedContent)]
    /\ Answers([call |-> "api_state_save", client |-> c, data |-> data],
               Answer(200, [ok |-> TRUE]))
    /\ EngineIdle
    /\ UNCHANGED <<admins, templates, settings, rulesTable, session, calls, reports>>

\* the store writes of the clients while validations run
ServeTemplates == { GoodTemplate, [GoodTemplate EXCEPT !.id = Num(1)] }

ServeRules == { Map(("rules_logic" :> UpGroup) @@ ("job" :> Str(<<"j">>)) @@ ("name" :> NewRule)) }

\* the application set up, client c1 logged in as its administrator
InitServe ==
    /\ InitEngine
    /\ admins = IF variant = "root"
                THEN {[id |-> 1, username |-> User1,
                       password_hash |-> generate_password_hash(Pass1)]}
                ELSE {}
    /\ templates = IF variant = "root" THEN SeedTemplates ELSE {}
    /\ editor = NoEditor
    /\ settings = IF variant = "v3"
                  THEN {[key |-> "admin_password", value |-> generate_password_hash(Pass1)]}
                  ELSE {}
    /\ rulesTable = {}
    /\ session = [c \in Clients |->
                     IF c = "c1"
                     THEN [user_id |-> IF variant = "root" THEN 1 ELSE 0,
                           admin_logged_in |-> variant = "v3"]
                     ELSE NoSession]
    /\ calls = [c \in Clients |-> NoCall]
    /\ reports = [c \in Clients |-> NoReport]

NextServe ==
    \/ pc = "idle" /\ \E c \in Clients, data \in ServeRequests : ApiValidateYamlBegin(c, data)
    \/ pc = "idle" /\ \E c \in Clients : ApiValidateYamlEnd(c)
    \/ pc = "idle" /\ \E c \in Clients, data \in ServeExprs : ApiValidatePromql(c, data)
    \/ pc = "idle" /\ \E c \in Clients : ApiState(c)
    \/ pc = "idle" /\ \E c \in Clients, data \in EditorData : ApiStateSave(c, data)
    \/ pc = "idle" /\ \E c \in Clients, data \in ServeTemplates : ApiTemplateCreate(c, data)
    \/ pc = "idle" /\ \E c \in Clients : ApiTemplateDelete(c, MaxTemplateId)
    \/ pc = "idle" /\ \E c \in Clients, data \in ServeRules : ApiAdminCreateRule(c, data)
    \/ pc = "idle" /\ \E c \in Clients : ApiAdminDeleteRule(c, Slug(NewRule.s))
    \/ Return

SpecServe == InitServe /\ [][NextServe]_vars

Next == NextScan \/ NextYaml \/ NextAdmin \/ NextServe

Spec == Init /\ [][Next]_vars

(***************************************************************************)
(* Properties of POST /api/validate/yaml (SpecYaml).                       *)
(***************************************************************************)
\* the handler has answered a request
Answered == pc = "done" /\ req.call = "api_validate_yaml"

\* the request's content parsed
Parsed == Answered /\ req.data.content.parses

\* the document is validated as a RuleSet: root when the type is "rule",
\* v2 and v3 whatever the type
AsRuleSet == Parsed /\ (variant # "root" \/ req.data.type = "rule")

\* the document is validated as a RoutingConfig: root, any other type
AsRoutingConfig == Parsed /\ variant = "root" /\ req.data.type # "rule"

\* C1: validating a parsed document as a RuleSet never faults, whatever its
\* shape: the handler answers with a report, not with an unhandled exception.
C1_RuleSetNeverFaults == AsRuleSet => resp.status = 200

\* the document is a mapping whose route is present and is not a mapping
NonMappingRoute(doc) == IsDict(doc) /\ Has(doc, "route") /\ ~IsDict(Get(doc, "route"))

\* C2: validating a parsed document as a RoutingConfig never faults; in
\* particular a route that is present and is not a mapping gives a report with
\* a diagnostic, whatever the receivers are.
C2_RoutingNeverFaults ==
    AsRoutingConfig =>
        /\ resp.status = 200
        /\ NonMappingRoute(req.data.content.doc) => resp.body.errors # <<>>

\* C3: in every report for a document that parsed, valid is true exactly when
\* errors is empty and promql_invalid is 0.
C3_ValidIffClean ==
    (Parsed /\ resp.status = 200) =>
        (resp.body.valid <=> (resp.body.errors = <<>> /\ resp.body.promql_invalid = 0))

\* a root report with an invalid expression counted: valid is computed from
\* the diagnostics alone there
C3_Witness ==
    /\ Parsed
    /\ variant = "root"
    /\ resp.status = 200
    /\ resp.body.promql_invalid > 0
    /\ ~resp.body.valid

\* C4: when the content does not parse, the report is exactly valid = false,
\* errors = one message, promql_checked = 0, promql_invalid = 0, and neither a
\* validator nor the expression scanner has run.
C4_ParseFailureReport ==
    (Answered /\ ~req.data.content.parses) =>
        /\ resp = Report(FALSE, resp.body.errors, 0, 0)
        /\ Len(resp.body.errors) = 1
        /\ resp.body.errors[1].msg = "Invalid YAML: {e}"
        /\ ran = <<"load_yaml">>

\* a report for content that did not parse
C4_Witness ==
    /\ Answered
    /\ ~req.data.content.parses
    /\ resp.status = 200
    /\ ~resp.body.valid

(***************************************************************************)
(* Properties of the expression scanner (SpecScan).                        *)
(***************************************************************************)
\* the scan is about to read expr[i]
Reading == pc = "scan" /\ i <= Len(expr)

\* the scanner has returned
Scanned == pc = "done" /\ req.call = "is_promql_syntax_valid"

\* expr[i] is a closing delimiter whose counter is 0
ClosesAtZero ==
    \/ expr[i] = "}" /\ brace = 0
    \/ expr[i] = "]" /\ bracket = 0
    \/ expr[i] = ")" /\ paren = 0

\* the kind of delimiter the v2/v3 message names
KindOf(ch) ==
    CASE ch = "}" -> "Unexpected closing brace '}' at position"
      [] ch = "]" -> "Unexpected closing bracket ']' at position"
      [] ch = ")" -> "Unexpected closing parenthesis ')' at position"

\* C5: a closing brace, bracket or parenthesis read outside strings and not
\* escaped while its counter is 0 ends the scan at that character with the
\* verdict invalid, whatever follows; in v2 and v3 the error names the kind of
\* delimiter and the 0-based index of that character, root returns false.
C5_NeverNegative ==
    [][ (Reading /\ ~escape /\ in_string = NoString /\ ClosesAtZero) =>
            /\ pc' = "done"
            /\ ~resp'.valid
            /\ IF variant = "root" THEN resp'.error = <<>>
               ELSE resp'.error = <<KindOf(expr[i]), i - 1>> ]_vars

\* v2 has rejected "a}{" at index 1 although an opening brace follows
C5_Witness ==
    /\ Scanned
    /\ variant = "v2"
    /\ expr = <<"a", "}", "{">>
    /\ i = 2
    /\ resp = [valid |-> FALSE, error |-> <<KindOf("}"), 1>>]

\* the locals after the last character are clean
CleanAtEnd ==
    i > Len(expr) /\ in_string = NoString /\ brace = 0 /\ bracket = 0 /\ paren = 0

\* C6: an expression is accepted only if, after its last character, no string
\* is open and the three counters are 0: an expression that leaves a string
\* open or a counter non-zero is rejected.
C6_EndOfInput == (Scanned /\ resp.valid) => CleanAtEnd

\* "(" has been read to its end with paren = 1, and is rejected
C6_Witness ==
    /\ Scanned
    /\ expr = <<"(">>
    /\ i > Len(expr)
    /\ paren = 1
    /\ ~resp.valid

IsGrouping(ch) == ch \in {"{", "}", "[", "]", "(", ")"}

\* e with every grouping delimiter that the scan reads inside a string
\* replaced by "+"; s is the scan state before e[k]
RECURSIVE Neutral(_, _, _, _)
Neutral(v, e, k, s) ==
    IF k > Len(e) THEN <<>>
    ELSE <<IF s.in_string # NoString /\ ~s.escape /\ IsGrouping(e[k]) THEN "+" ELSE e[k]>>
         \o Neutral(v, e, k + 1, LoopBody(v, s, e[k], k - 1))

\* C7: while a string is open, a character that is not escaped, is not a
\* backslash and is not the quote that opened the string (so any grouping
\* delimiter, and any other kind of quote) leaves the three counters and the
\* string state unchanged; the verdict of an expression therefore does not
\* depend on which grouping delimiters occur inside its strings.
C7_StringSuppression ==
    [][ /\ (Reading /\ in_string # NoString /\ ~escape
                /\ expr[i] # "\\" /\ expr[i] # in_string)
            => (pc' = "scan" /\ UNCHANGED <<brace, bracket, paren, in_string>>)
        /\ (pc' = "done" /\ req'.call = "is_promql_syntax_valid")
            => resp' = is_promql_syntax_valid(variant, Neutral(variant, expr', 1, ScanInit)) ]_vars

\* up{job="}"} == 0 is accepted: the brace inside the string was not counted
C7_Witness ==
    /\ Scanned
    /\ expr = <<"u","p","{","j","o","b","=","\"","}","\"","}"," ","=","="," ","0">>
    /\ Neutral(variant, expr, 1, ScanInit) # expr
    /\ resp.valid

\* C8: a backslash that is not itself escaped makes the next character
\* escaped, inside and outside strings; an escaped character changes no
\* counter and opens or closes no string, and the character after it is not
\* escaped: an escaped quote does not close a string, an escaped backslash
\* does not escape what follows it.
C8_EscapeRule ==
    [][ /\ (Reading /\ ~escape /\ expr[i] = "\\")
            => (pc' = "scan" /\ escape' /\ UNCHANGED <<brace, bracket, paren, in_string>>)
        /\ (Reading /\ escape)
            => (pc' = "scan" /\ ~escape' /\ UNCHANGED <<brace, bracket, paren, in_string>>) ]_vars

\* v2 accepts "\"" (a string holding an escaped quote): the escaped quote did
\* not close the string, the last quote did
C8_Witness ==
    /\ Scanned
    /\ variant = "v2"
    /\ expr = <<"\"", "\\", "\"", "\"">>
    /\ in_string = NoString
    /\ resp.valid

\* the trimmed form of e starts or ends with one of = < > !
ComparisonAtEdge(e) ==
    /\ Strip(e) # <<>>
    /\ \/ IsComparisonChar(Head(Strip(e)))
       \/ IsComparisonChar(Strip(e)[Len(Strip(e))])

\* C9 as stated: in each of the three variants the scanner rejects every
\* expression whose trimmed form starts or ends with a comparison-operator
\* character.  The root variant has no such check.
C9_AllVariantsRejectComparisonEdge ==
    (Scanned /\ ComparisonAtEdge(expr)) => ~resp.valid

\* C9, amended: in the v2 and v3 variants the scanner rejects every expression
\* whose trimmed form starts or ends with a comparison-operator character.
C9_V2V3RejectComparisonEdge ==
    (Scanned /\ variant \in {"v2", "v3"} /\ ComparisonAtEdge(expr)) => ~resp.valid

\* v3 has read >80 to its end, found it balanced, and rejects it for its
\* leading operator
C9_Witness ==
    /\ Scanned
    /\ variant = "v3"
    /\ expr = <<">", "8", "0">>
    /\ CleanAtEnd
    /\ resp = Verdict(FALSE, "Expression cannot start with a comparison operator")

\* e holds a character of [a-zA-Z0-9_:]
HasIdentChar(e) == \E k \in 1..Len(e) : IsIdentChar(e[k])

\* C10 as stated: in each of the three variants every accepted expression
\* holds at least one identifier-class character.  v2 and v3 have no such
\* check.
C10_AllVariantsNeedIdentifier ==
    (Scanned /\ resp.valid) => HasIdentChar(expr)

\* C10, amended: in the root variant every accepted expression holds at least
\* one identifier-class character, so an expression made only of balanced
\* delimiters or punctuation is rejected there.
C10_RootNeedsIdentifier ==
    (Scanned /\ variant = "root" /\ resp.valid) => HasIdentChar(expr)

\* root has read {} to its end, found it balanced, and rejects it
C10_Witness ==
    /\ Scanned
    /\ variant = "root"
    /\ expr = <<"{", "}">>
    /\ CleanAtEnd
    /\ ~resp.valid

\* e is not blank and holds a control character
ControlInside(e) == Strip(e) # <<>> /\ \E k \in 1..Len(e) : IsControlChar(e[k])

\* C11: an expression that is not blank and holds a control character is
\* rejected in every variant, and the rejection is decided before the balance
\* pass: no character has been scanned, and in v2 and v3 the error is the
\* control-character error even when a delimiter is unbalanced or goes negative.
C11_ControlBeforeBalance ==
    (Scanned /\ ControlInside(expr)) =>
        /\ ~resp.valid
        /\ i = 1
        /\ Locals = ScanInit
        /\ variant # "root" => resp.error = <<"Contains invalid control characters">>

\* v2 rejects }<tab>a for its control character, not for its closing brace
C11_Witness ==
    /\ Scanned
    /\ variant = "v2"
    /\ expr = <<"}", "\t", "a">>
    /\ resp = Verdict(FALSE, "Contains invalid control characters")

(***************************************************************************)
(* What valid = true tells about the document (SpecYaml).                  *)
(***************************************************************************)
\* the document of the request
Doc == req.data.content.doc

\* a report with valid = true for a document validated as a RuleSet
RuleSetValid == AsRuleSet /\ resp.status = 200 /\ resp.body.valid

\* a report with valid = true for a document validated as a RoutingConfig
RoutingValid == AsRoutingConfig /\ resp.status = 200 /\ resp.body.valid

\* the document is a mapping whose groups is a sequence
HasGroupList(doc) == IsDict(doc) /\ Has(doc, "groups") /\ IsList(Get(doc, "groups"))

\* the elements of groups
GroupsOf(doc) == Get(doc, "groups").xs

NonEmptyText(n) == IsStr(n) /\ n.s # <<>>

\* g is a mapping whose rules is a sequence
HasRuleList(g) == IsDict(g) /\ Has(g, "rules") /\ IsList(Get(g, "rules"))

\* the elements of rules
RulesOf(g) == Get(g, "rules").xs

\* C12: whenever a RuleSet report has valid = true, every element of groups
\* is a mapping that has a non-empty name and a rules field that is a
\* sequence.
C12_ValidGroupsWellFormed ==
    RuleSetValid =>
        /\ HasGroupList(Doc)
        /\ \A k \in 1..Len(GroupsOf(Doc)) :
              /\ HasRuleList(GroupsOf(Doc)[k])
              /\ Has(GroupsOf(Doc)[k], "name")
              /\ NonEmptyText(Get(GroupsOf(Doc)[k], "name"))

\* a present labels or annotations is a mapping, a present alert or record is text
FieldTypesOk(r) ==
    /\ \A f \in {"labels", "annotations"} : Has(r, f) => IsDict(Get(r, f))
    /\ \A f \in {"alert", "record"} : Has(r, f) => IsStr(Get(r, f))

\* C13: whenever a RuleSet report has valid = true, in every rule of every
\* group a present labels or annotations field is a mapping and a present
\* alert or record field is text, in every variant.
C13_ValidFieldTypes ==
    RuleSetValid =>
        /\ HasGroupList(Doc)
        /\ \A k \in 1..Len(GroupsOf(Doc)) :
              /\ HasRuleList(GroupsOf(Doc)[k])
              /\ \A j \in 1..Len(RulesOf(GroupsOf(Doc)[k])) :
                    /\ IsDict(RulesOf(GroupsOf(Doc)[k])[j])
                    /\ FieldTypesOk(RulesOf(GroupsOf(Doc)[k])[j])

\* the scanner of variant v accepts the value n
Accepts(v, n) == IsStr(n) /\ is_promql_syntax_valid(v, n.s).valid

\* C14: whenever a RuleSet report has valid = true, every element of every
\* group's rules is a mapping that has an expr field, and
\* is_promql_syntax_valid accepts the value of that field.
C14_ValidRulesHaveGoodExpr ==
    RuleSetValid =>
        /\ HasGroupList(Doc)
        /\ \A k \in 1..Len(GroupsOf(Doc)) :
              /\ HasRuleList(GroupsOf(Doc)[k])
              /\ \A j \in 1..Len(RulesOf(GroupsOf(Doc)[k])) :
                    /\ IsDict(RulesOf(GroupsOf(Doc)[k])[j])
                    /\ Has(RulesOf(GroupsOf(Doc)[k])[j], "expr")
                    /\ Accepts(variant, Get(RulesOf(GroupsOf(Doc)[k])[j], "expr"))

\* a valid report for a document of two groups holding two rules in all
C14_Witness ==
    /\ RuleSetValid
    /\ Len(GroupsOf(Doc)) = 2
    /\ resp.body.promql_checked = 2

\* the entries of receivers, none when receivers is not a sequence
ReceiverEntries(doc) ==
    IF Has(doc, "receivers") /\ IsList(Get(doc, "receivers")) THEN Get(doc, "receivers").xs
    ELSE <<>>

\* entry k of receivers is a mapping named n
Named(doc, k, n) ==
    /\ IsDict(ReceiverEntries(doc)[k])
    /\ Has(ReceiverEntries(doc)[k], "name")
    /\ Get(ReceiverEntries(doc)[k], "name") = n

\* the positions of the entries named n
Occurrences(doc, n) == { k \in 1..Len(ReceiverEntries(doc)) : Named(doc, k, n) }

\* the names of the entries of receivers
ReceiverNames(doc) ==
    { Get(ReceiverEntries(doc)[k], "name") :
          k \in { x \in 1..Len(ReceiverEntries(doc)) :
                      IsDict(ReceiverEntries(doc)[x]) /\ Has(ReceiverEntries(doc)[x], "name") } }

\* the positions in errs of the diagnostics of format msg about the value arg
DiagsAbout(errs, msg, arg) == { k \in 1..Len(errs) : errs[k].msg = msg /\ errs[k].arg = arg }

\* the positions in errs of the diagnostics of format msg
DiagsOf(errs, msg) == { k \in 1..Len(errs) : errs[k].msg = msg }

\* the receiver of the top-level route, Null when there is none
RouteReceiver(doc) ==
    IF Has(doc, "route") /\ IsDict(Get(doc, "route")) THEN Get(Get(doc, "route"), "receiver")
    ELSE Null

\* C15: whenever a RoutingConfig report has valid = true, the names of the
\* entries of receivers are pairwise distinct and the receiver of the
\* top-level route is the name of some entry of receivers.
C15_ValidRoutingReferences ==
    RoutingValid =>
        /\ IsDict(Doc)
        /\ \A n \in ReceiverNames(Doc) : Cardinality(Occurrences(Doc, n)) = 1
        /\ RouteReceiver(Doc) \in ReceiverNames(Doc)

\* C16: for a RoutingConfig whose route is a mapping with a non-empty text
\* receiver R that is not the name of any entry of receivers, the validator
\* returns exactly one unknown-receiver diagnostic, and it names R, whatever
\* the shape of the receivers field.
C16_OneUnknownReceiver ==
    (AsRoutingConfig /\ resp.status = 200 /\ IsDict(Doc)
        /\ NonEmptyText(RouteReceiver(Doc)) /\ RouteReceiver(Doc) \notin ReceiverNames(Doc))
    => /\ Cardinality(DiagsOf(resp.body.errors, "Route references unknown receiver '{receiver}'")) = 1
       /\ Cardinality(DiagsAbout(resp.body.errors, "Route references unknown receiver '{receiver}'",
                                 RouteReceiver(Doc))) = 1

\* C17: for a receivers sequence in which a name occurs k >= 2 times, the
\* validator emits exactly one duplicate diagnostic for that name, whatever k
\* is, and none for a name that occurs once.
C17_OneDuplicateDiagnostic ==
    (AsRoutingConfig /\ resp.status = 200 /\ IsDict(Doc)) =>
        \A n \in ReceiverNames(Doc) :
            Cardinality(DiagsAbout(resp.body.errors, "Duplicate receiver name '{name}'", n))
                = IF Cardinality(Occurrences(Doc, n)) >= 2 THEN 1 ELSE 0

(***************************************************************************)
(* The diagnostics of the rule validator (SpecYaml).                       *)
(***************************************************************************)
\* a report for a document validated as a RuleSet whose groups is a sequence
GroupListReport == AsRuleSet /\ resp.status = 200 /\ HasGroupList(Doc)

\* the validator of variant v returns no diagnostic for doc
Clean(v, doc) == validate_prometheus_rules(v, doc) = Ok(<<>>)

\* doc with its groups replaced by gs
WithGroups(doc, gs) == Map([doc.m EXCEPT !["groups"] = List(gs)])

\* doc with the name g given to group k
WithName(doc, k) ==
    WithGroups(doc, [GroupsOf(doc) EXCEPT ![k] = Map(("name" :> Str(<<"g">>)) @@ @.m)])

\* doc with rule j of group k replaced by the rule r
WithRule(doc, k, j, r) ==
    WithGroups(doc, [GroupsOf(doc) EXCEPT
                        ![k] = Map([@.m EXCEPT !["rules"] = List([@.xs EXCEPT ![j] = r])])])

\* group k of doc lacks name, and that is the only defect of doc
OnlyNameMissing(v, doc, k) ==
    /\ IsDict(GroupsOf(doc)[k])
    /\ ~Has(GroupsOf(doc)[k], "name")
    /\ Clean(v, WithName(doc, k))

\* rule j of group k is the only defect of doc
OnlyRuleDefect(v, doc, k, j) ==
    /\ HasRuleList(GroupsOf(doc)[k])
    /\ j \in 1..Len(RulesOf(GroupsOf(doc)[k]))
    /\ ~Clean(v, doc)
    /\ Clean(v, WithRule(doc, k, j, Map("expr" :> Str(UpText))))

\* C18: diagnostics carry 1-based positions.  When group number k lacks name
\* and that is the only defect, the validator returns exactly one diagnostic,
\* "Group #k missing 'name'"; when rule j of group i is the only defect, the
\* validator returns at least one diagnostic and each says "Group #i Rule #j".
C18_OneBasedPositions ==
    GroupListReport =>
        \A k \in 1..Len(GroupsOf(Doc)) :
            /\ OnlyNameMissing(variant, Doc, k)
                   => resp.body.errors = <<Diag("Group #{i} missing 'name'", k, 0, NoArg)>>
            /\ \A j \in 1..MaxRules + 1 :
                   OnlyRuleDefect(variant, Doc, k, j)
                       => /\ resp.body.errors # <<>>
                          /\ \A x \in 1..Len(resp.body.errors) :
                                 resp.body.errors[x].i = k /\ resp.body.errors[x].j = j

\* two groups, the second lacks name: one diagnostic, about group 2
C18_Witness ==
    /\ GroupListReport
    /\ Len(GroupsOf(Doc)) = 2
    /\ OnlyNameMissing(variant, Doc, 2)
    /\ resp.body.errors = <<Diag("Group #{i} missing 'name'", 2, 0, NoArg)>>

\* the diagnostics of the group g validated on its own, as the only group
Alone(v, g) == validate_prometheus_rules(v, Map("groups" :> List(<<g>>))).errs

\* the diagnostics of the rule r validated on its own, in a group of its own
RuleAlone(v, r) ==
    Alone(v, Map(("name" :> Str(<<"g">>)) @@ ("rules" :> List(<<r>>))))

\* errs said about group gi instead of group 1
AtGroup(errs, gi) == [x \in 1..Len(errs) |-> [errs[x] EXCEPT !.i = gi]]

\* errs said about rule rj of group gi instead of rule 1 of group 1
AtRule(errs, gi, rj) == [x \in 1..Len(errs) |-> [errs[x] EXCEPT !.i = gi, !.j = rj]]

\* the diagnostics of the groups from number k on, each validated alone
RECURSIVE Groupwise(_, _, _)
Groupwise(v, groups, k) ==
    IF k > Len(groups) THEN <<>>
    ELSE AtGroup(Alone(v, groups[k]), k) \o Groupwise(v, groups, k + 1)

\* the diagnostics of errs about group gi, and those about its rule rj
AboutGroup(errs, gi) == SelectSeq(errs, LAMBDA e : e.i = gi)
AboutRule(errs, gi, rj) == SelectSeq(errs, LAMBDA e : e.i = gi /\ e.j = rj)

\* C19: when groups is a sequence, the diagnostics returned are the
\* concatenation, in group order and then rule order, of the diagnostics each
\* group yields on its own under its index.  A group that is not a mapping,
\* lacks rules or has a non-sequence rules contributes a diagnostic and no
\* rule diagnostic; in a group with a rules sequence, each rule contributes
\* what it yields on its own, whatever the rules before it are.
C19_Concatenation ==
    GroupListReport =>
        /\ resp.body.errors = Groupwise(variant, GroupsOf(Doc), 1)
        /\ \A k \in 1..Len(GroupsOf(Doc)) :
              IF HasRuleList(GroupsOf(Doc)[k])
              THEN \A j \in 1..Len(RulesOf(GroupsOf(Doc)[k])) :
                       AboutRule(resp.body.errors, k, j)
                           = AtRule(RuleAlone(variant, RulesOf(GroupsOf(Doc)[k])[j]), k, j)
              ELSE /\ AboutGroup(resp.body.errors, k) # <<>>
                   /\ \A j \in 1..MaxRules + 1 : AboutRule(resp.body.errors, k, j) = <<>>

\* the first group is not a mapping, the second holds a rule that is not a
\* mapping followed by a rule whose expression is rejected: three diagnostics
C19_Witness ==
    /\ GroupListReport
    /\ Len(GroupsOf(Doc)) = 2
    /\ ~IsDict(GroupsOf(Doc)[1])
    /\ Len(resp.body.errors) = 3
    /\ resp.body.errors[1].i = 1
    /\ resp.body.errors[2].i = 2 /\ resp.body.errors[2].j = 1
    /\ resp.body.errors[3].i = 2 /\ resp.body.errors[3].j = 2

\* the number of elements of rules that are mappings with an expr field
RECURSIVE ExprRulesIn(_, _)
ExprRulesIn(rules, j) ==
    IF j > Len(rules) THEN 0
    ELSE (IF IsDict(rules[j]) /\ Has(rules[j], "expr") THEN 1 ELSE 0) + ExprRulesIn(rules, j + 1)

\* the same number over the groups from number k on
RECURSIVE ExprRulesFrom(_, _)
ExprRulesFrom(groups, k) ==
    IF k > Len(groups) THEN 0
    ELSE (IF HasRuleList(groups[k]) THEN ExprRulesIn(RulesOf(groups[k]), 1) ELSE 0)
         + ExprRulesFrom(groups, k + 1)

\* the number of rule mappings of doc that have an expr field
ExprRules(doc) == IF HasGroupList(doc) THEN ExprRulesFrom(GroupsOf(doc), 1) ELSE 0

\* the positions in errs of the invalid-expression diagnostics
InvalidExprDiags(errs) ==
    DiagsOf(errs, "Group #{i} Rule #{j} has invalid PromQL: {expr}")
        \cup DiagsOf(errs, "Group #{i} Rule #{j} invalid PromQL: {err_msg}")

\* C20: in every report for a RuleSet, promql_checked is the number of rule
\* mappings that have an expr field, promql_invalid is the number of
\* invalid-expression diagnostics in errors, and
\* 0 <= promql_invalid <= promql_checked, in every variant.
C20_CountersAgree ==
    (AsRuleSet /\ resp.status = 200) =>
        /\ resp.body.promql_checked = ExprRules(Doc)
        /\ resp.body.promql_invalid = Cardinality(InvalidExprDiags(resp.body.errors))
        /\ 0 <= resp.body.promql_invalid
        /\ resp.body.promql_invalid <= resp.body.promql_checked

(***************************************************************************)
(* More properties of the expression scanner (SpecScan).                   *)
(***************************************************************************)
\* the error of the first failing check of v2/v3, in the order: empty
\* expression, control character, closing delimiter that goes negative,
\* unclosed string, braces, brackets, parentheses, leading comparison
\* operator, trailing comparison operator; read off the state the scan is in
FirstFailure ==
    IF Strip(expr) = <<>> THEN <<"Empty expression">>
    ELSE IF \E k \in 1..Len(expr) : IsControlChar(expr[k])
    THEN <<"Contains invalid control characters">>
    ELSE IF i <= Len(expr) THEN <<KindOf(expr[i]), i - 1>>
    ELSE IF in_string # NoString THEN <<"Unclosed string literal">>
    ELSE IF brace # 0 THEN <<"Unclosed braces {}">>
    ELSE IF bracket # 0 THEN <<"Unclosed brackets []">>
    ELSE IF paren # 0 THEN <<"Unclosed parentheses ()">>
    ELSE IF IsComparisonChar(Head(Strip(expr)))
    THEN <<"Expression cannot start with a comparison operator">>
    ELSE <<"Expression cannot end with a comparison operator">>

\* the scan stopped at expr[i], a closing delimiter that took its counter below 0
StoppedNegative ==
    /\ i <= Len(expr)
    /\ \/ expr[i] = "}" /\ brace < 0
       \/ expr[i] = "]" /\ bracket < 0
       \/ expr[i] = ")" /\ paren < 0

\* the two comparison-operator errors
ComparisonErrors ==
    { <<"Expression cannot start with a comparison operator">>,
      <<"Expression cannot end with a comparison operator">> }

\* C24: in v2 and v3 the error reported for a rejected expression is that of
\* the first failing check in the order of FirstFailure; a scan that stops
\* inside the expression stops at a closing delimiter that goes negative,
\* and a comparison-operator error is reported only for an expression that
\* passes every balance check.
C24_ErrorPrecedence ==
    (Scanned /\ variant \in {"v2", "v3"} /\ ~resp.valid) =>
        /\ resp.error = FirstFailure
        /\ (Len(resp.error) = 2) => StoppedNegative
        /\ resp.error \in ComparisonErrors => CleanAtEnd

\* >( starts with a comparison operator and leaves a parenthesis open: the
\* error is the one of the balance check
C24_Witness ==
    /\ Scanned
    /\ variant = "v3"
    /\ expr = <<">", "(">>
    /\ resp = Verdict(FALSE, "Unclosed parentheses ()")

\* the number of characters o minus the number of characters c in e[1..k]
RECURSIVE Running(_, _, _, _)
Running(e, k, o, c) ==
    IF k = 0 THEN 0
    ELSE Running(e, k - 1, o, c) + (IF e[k] = o THEN 1 ELSE IF e[k] = c THEN -1 ELSE 0)

\* the kind o..c is balanced in e on its own: never negative, zero at the end
KindBalanced(e, o, c) ==
    /\ \A k \in 1..Len(e) : Running(e, k, o, c) >= 0
    /\ Running(e, Len(e), o, c) = 0

EachKindBalanced(e) ==
    KindBalanced(e, "{", "}") /\ KindBalanced(e, "[", "]") /\ KindBalanced(e, "(", ")")

\* e holds no quote, no back-tick, no backslash, no control character, and
\* is not blank: every delimiter of e is counted
Plain(e) ==
    /\ Strip(e) # <<>>
    /\ \A k \in 1..Len(e) : e[k] \notin {"\"", "'", Backtick, "\\"} /\ ~IsControlChar(e[k])

\* the verdict is a rejection by a balance check
BalanceRejected ==
    /\ ~resp.valid
    /\ IF variant = "root" THEN ~CleanAtEnd
       ELSE resp.error \notin ComparisonErrors

\* C25: the three delimiter kinds are tracked independently and nesting depth
\* is unrestricted.  For an expression without strings, the balance verdict
\* depends only on each kind's own running count (never negative, zero at the
\* end): an expression whose kinds are each balanced is accepted unless the
\* identifier check (root) or the comparison check (v2, v3) rejects it.
C25_IndependentCounters ==
    (Scanned /\ Plain(expr)) =>
        /\ BalanceRejected <=> ~EachKindBalanced(expr)
        /\ resp.valid <=> /\ EachKindBalanced(expr)
                          /\ IF variant = "root" THEN HasIdentChar(expr)
                             ELSE ~ComparisonAtEdge(expr)

\* ([)]a is accepted although its kinds are mis-nested
C25_Witness ==
    /\ Scanned
    /\ expr = <<"(", "[", ")", "]", "a">>
    /\ EachKindBalanced(expr)
    /\ resp.valid

\* a step of the scan treats the back-tick as a string delimiter: outside
\* strings it opens a string; inside a back-tick string only a back-tick
\* closes it and every other character (backslash apart) changes nothing; at
\* the end of input an open back-tick string makes the expression invalid
BacktickStep ==
    /\ (Reading /\ ~escape /\ in_string = NoString /\ expr[i] = Backtick)
           => (pc' = "scan" /\ in_string' = Backtick /\ UNCHANGED <<brace, bracket, paren>>)
    /\ (Reading /\ ~escape /\ in_string = Backtick /\ expr[i] # "\\")
           => /\ pc' = "scan"
              /\ in_string' = (IF expr[i] = Backtick THEN NoString ELSE Backtick)
              /\ UNCHANGED <<brace, bracket, paren>>
    /\ (pc = "scan" /\ i > Len(expr) /\ in_string = Backtick)
           => (pc' = "done" /\ ~resp'.valid)

\* C26 as stated: in each variant of the scanner a back-tick outside a string
\* opens a string state that only another back-tick closes, like the two
\* quotes.  The root variant has no back-tick branch.
C26_BacktickAllVariants == [][BacktickStep]_vars

\* C26, amended: in the v2 and v3 variants a back-tick outside a string opens
\* a string state that only another back-tick closes; delimiters and other
\* quotes between two back-ticks do not affect the counters, and an unmatched
\* back-tick makes the expression invalid as an unclosed string.
C26_BacktickV2V3 ==
    [][ /\ variant \in {"v2", "v3"} => BacktickStep
        /\ (variant \in {"v2", "v3"} /\ pc = "scan" /\ i > Len(expr) /\ in_string = Backtick)
               => resp' = Verdict(FALSE, "Unclosed string literal") ]_vars

\* v3 accepts a back-tick string holding a parenthesis and a quote
C26_Witness ==
    /\ Scanned
    /\ variant = "v3"
    /\ expr = <<Backtick, "(", "\"", Backtick, "a">>
    /\ CleanAtEnd
    /\ resp.valid

(***************************************************************************)
(* Properties of the administration of the stores (SpecAdmin).             *)
(***************************************************************************)
\* the last step was a step of the handler named call
Handled(call) == pc = "done" /\ req.call = call

\* C30: in the root variant /setup-admin creates at most one admin account:
\* under any interleaving of setup requests the table admins never holds
\* more than one row, and a setup request that arrives when an admin exists
\* is answered 403 and leaves the table as it is
C30_AtMostOneAdmin ==
    [][ /\ Cardinality(admins') <= 1
        /\ (admins # {} /\ Handled("setup_admin")' /\ calls[req'.client] = NoCall)
               => (resp'.status = 403 /\ admins' = admins) ]_vars

\* C27: in v3 the admin password is set at most once: under any interleaving
\* of /api/admin/setup requests the table settings holds at most one
\* admin_password row, a stored row never changes, the row a request stores
\* is the hash of its own password, and a request that stored nothing
\* leaves its session as it was
C27_PasswordSetOnce ==
    [][ /\ Cardinality(AdminPassword') <= 1
        /\ AdminPassword # {} => settings' = settings
        /\ Handled("api_admin_setup")' =>
               /\ settings' # settings =>
                      settings' = {[key |-> "admin_password",
                                    value |-> generate_password_hash(Get(req'.data, "password"))]}
               /\ settings' = settings => session' = session ]_vars

\* the second of two concurrent first-time setups has failed on the primary key
C27_Witness ==
    /\ Handled("api_admin_setup")
    /\ resp = Fault("IntegrityError")
    /\ AdminPassword # {}
    /\ ~session[req.client].admin_logged_in

\* the characters of a name that are left when the surrounding white space
\* and the markup are taken away
Visible(name) == SelectSeq(Strip(name), LAMBDA ch : ch \notin Tags)

\* a request that fails one of the checks of POST /api/template
FailsTemplateChecks(data) ==
    \/ ~IsStr(data.name)
    \/ Visible(data.name.s) = <<>>
    \/ data.type \notin {"rule", "alertmanager"}
    \/ data.content.empty
    \/ ~data.content.parses

UnknownTemplate(data) == data.id # Null /\ \A t \in templates : t.id # data.id.n

WellFormedTemplate(t) ==
    /\ t.name # <<>>
    /\ Len(t.name) <= MaxNameLength
    /\ t.type \in {"rule", "alertmanager"}
    /\ ~t.content.empty
    /\ t.content.parses

TemplateIds(rows) == { t.id : t \in rows }

\* C29: in the root variant every template a POST /api/template request
\* creates or updates has a non-empty name of at most 120 characters, a type
\* of rule or alertmanager and non-empty content that parses; a request that
\* fails one of the checks or names an id that is not stored is answered with
\* an error and leaves the templates as they are; a request with a stored id
\* changes that row and adds none, a request without id that succeeds adds
\* one row with a new id
C29_TemplatesWellFormed ==
    [][ Handled("api_template_create")' =>
          /\ \A t \in templates' \ templates :
                 /\ WellFormedTemplate(t)
                 /\ t.type = req'.data.type /\ t.content = req'.data.content
          /\ (FailsTemplateChecks(req'.data) \/ UnknownTemplate(req'.data))
                 => (resp'.status \in {400, 401, 404, 500} /\ templates' = templates)
          /\ req'.data.id # Null =>
                 /\ TemplateIds(templates') = TemplateIds(templates)
                 /\ \A t \in templates' \ templates : t.id = req'.data.id.n
                 /\ resp'.status = 200 =>
                        (\E t \in templates' : t.id = req'.data.id.n /\ resp'.body.id = t.id)
          /\ (req'.data.id = Null /\ resp'.status = 200) =>
                 \E t \in templates' \ templates :
                    /\ t.id \notin TemplateIds(templates)
                    /\ templates' = templates \cup {t} ]_vars

\* a name longer than the limit was stored cut to the limit
C29_Witness ==
    /\ Handled("api_template_create")
    /\ resp.status = 200
    /\ Len(req.data.name.s) > MaxNameLength
    /\ \E t \in templates : t.id = resp.body.id /\ Len(t.name) = MaxNameLength

\* the requests that write to the store
RootWrites == {"api_template_create", "api_template_delete"}
AdminWrites == {"api_admin_create_rule", "api_admin_update_rule", "api_admin_delete_rule"}

\* the clients whose flag admin_logged_in a step sets
NewlyLoggedIn == { c \in Clients : session'[c].admin_logged_in /\ ~session[c].admin_logged_in }

\* C23: the persisted store changes only in a write request of a client whose
\* session is authenticated when the request is handled; a write request of
\* a client whose session is not authenticated is answered 401 and changes
\* nothing; in v3 the flag admin_logged_in is set only by a setup request
\* whose password was stored or a login request with the stored password,
\* and a logout request leaves the session of its client unauthenticated
C23_AuthGate ==
    [][ /\ rulesTable' # rulesTable =>
               (req'.call \in AdminWrites /\ session[req'.client].admin_logged_in)
        /\ templates' # templates =>
               (req'.call \in RootWrites /\ IsAuthenticated(req'.client))
        /\ (pc' = "done" /\ req'.call \in AdminWrites /\ ~session[req'.client].admin_logged_in)
               => (resp'.status = 401 /\ rulesTable' = rulesTable)
        /\ (pc' = "done" /\ req'.call \in RootWrites /\ ~IsAuthenticated(req'.client))
               => (resp'.status = 401 /\ templates' = templates)
        /\ \A c \in NewlyLoggedIn :
               /\ c = req'.client
               /\ \/ req'.call = "api_admin_setup" /\ settings' # settings
                  \/ /\ req'.call = "api_admin_login"
                     /\ \E r \in AdminPassword : r.value = generate_password_hash(Get(req'.data, "password"))
        /\ Handled("api_admin_logout")' => ~session'[req'.client].admin_logged_in
        /\ Handled("logout")' => session'[req'.client].user_id \notin { a.id : a \in admins' } ]_vars

\* rules are stored, every client has logged out, and a write was answered 401
C23_Witness ==
    /\ pc = "done"
    /\ req.call \in AdminWrites
    /\ resp.status = 401
    /\ rulesTable # {}
    /\ \A c \in Clients : ~session[c].admin_logged_in

\* the diagnostics of validate_prometheus_rules({"groups": [g]}) in v3
GroupDiagnostics(g) == validate_prometheus_rules("v3", Map("groups" :> List(<<g>>)))

ValidationCalls == {"api_validate_yaml", "api_validate_promql"}

\* what the handler of a validation request answers when no other request is
\* handled between its steps
AnsweredAlone(v, call, data) ==
    IF call = "api_validate_yaml" THEN api_validate_yaml(v, data).resp
    ELSE api_validate_promql(v, data)

\* C22: validations are independent under concurrency: a step of a
\* validation handler leaves the editor state, the stores and the sessions
\* as they are and does not touch the request or the report of another
\* client, and under every interleaving the report it answers is the one the
\* handler returns for this input alone
C22_Independent ==
    [][ (pc' = "done" /\ req'.call \in ValidationCalls) =>
          /\ UNCHANGED <<editor, templates, rulesTable, admins, settings, session>>
          /\ \A d \in Clients \ {req'.client} : calls'[d] = calls[d] /\ reports'[d] = reports[d]
          /\ resp' # NoResp =>
                 /\ resp' = AnsweredAlone(variant, req'.call, req'.data)
                 /\ reports'[req'.client].resp = resp' ]_vars

\* a validation is answered while the validation of another document by the
\* other client is between its steps and the editor state has been saved
C22_Witness ==
    /\ Handled("api_validate_yaml")
    /\ resp # NoResp
    /\ editor.set
    /\ \E d \in Clients \ {req.client} :
           calls[d].op = "api_validate_yaml" /\ calls[d].data # req.data

=============================================================================
